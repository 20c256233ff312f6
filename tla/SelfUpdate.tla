----------------------------- MODULE SelfUpdate -----------------------------
(***************************************************************************)
(* "httprove update" of src/src/update for a manual installation: resolve  *)
(* a release, download and verify its archive, write the binary beside the *)
(* installed one, back that one up and rename the new one over it, link    *)
(* the alias.  The process can die between any two system calls, and the   *)
(* user can start it again.                                                *)
(*                                                                         *)
(* One updater at a time.  A brew installation is left to brew.            *)
(***************************************************************************)
EXTENDS Naturals

CONSTANTS Latest,   \* releases are numbered 1..Latest; the newest
          MaxRuns   \* BOUND: how often the command is started

ASSUME UpdateAssumption == Latest \in Nat \ {0}

VARIABLES
    pc,      \* where the command is, see PCs
    args,    \* its options
    cur,     \* CURRENT_VERSION: the release it was built from
    tag,     \* the release to install; Junk for a tag that is no version
    file,    \* [Paths -> file]
    code,    \* the exit code of the last run; NoExit while it runs or if it died
    runs,    \* ghost: runs started
    torn,    \* ghost: install(1) was killed on the target
    before   \* ghost: the target as the run found it

PCs == {"down", "resolve", "download", "write", "chmod", "replace", "unlinkBak",
        "copyBak", "copyingBak", "rename", "setExec", "sudo", "sudoing",
        "unlinkAlias", "symlink"}

Junk == 0
NoTag == Latest + 1
NoExit == 9
Paths == {"target", "staged", "bak", "alias"}

\* A file is a release's binary, whole or cut off, executable or not.
Absent == [release |-> Junk, whole |-> FALSE, exec |-> FALSE, there |-> FALSE]
Binary(r, w, x) == [release |-> r, whole |-> w, exec |-> x, there |-> TRUE]
Binaries == {Binary(r, w, x) : r \in Junk..Latest, w \in BOOLEAN, x \in BOOLEAN}
Runnable(f) == f.there /\ f.whole /\ f.exec

updateVars == <<pc, args, cur, tag, file, code, runs, torn, before>>
choice == <<args, cur, tag>>
ghosts == <<runs, torn, before>>

Args == [check : BOOLEAN, to : 1..NoTag, force : BOOLEAN, dryRun : BOOLEAN]
NoArgs == [check |-> FALSE, to |-> NoTag, force |-> FALSE, dryRun |-> FALSE]

UpdateInit == \E installed \in 1..Latest :
    /\ pc = "down"
    /\ args = NoArgs
    /\ cur = installed
    /\ tag = NoTag
    /\ file = [p \in Paths |-> IF p = "target" THEN Binary(installed, TRUE, TRUE)
                               ELSE Absent]
    /\ code = NoExit
    /\ runs = 0
    /\ torn = FALSE
    /\ before = Binary(installed, TRUE, TRUE)

-----------------------------------------------------------------------------
(* update::run.                                                            *)

Goto(l) == pc' = l /\ UNCHANGED code
Return(c) == pc' = "down" /\ code' = c
Put(p, f) == file' = [file EXCEPT ![p] = f]

\* The installed binary is started with "update".
StartUpdate ==
    /\ pc = "down" /\ runs < MaxRuns
    /\ Runnable(file["target"])
    /\ pc' = "resolve" /\ code' = NoExit
    /\ args' \in Args
    /\ cur' = file["target"].release
    /\ before' = file["target"]
    /\ runs' = runs + 1
    /\ UNCHANGED <<tag, file, torn>>

\* Faulty: any other version is an update.
IsNewer_Different(l, c) == l # c

\* is_newer: a tag that cannot be parsed is never newer.
IsNewer(l, c) == l # Junk /\ c # Junk /\ l > c

\* What the redirect, or else the API, says is the latest release: an older one
\* from a cache or a tag that is no version included.
Resolve ==
    /\ pc = "resolve"
    /\ \/ Return(1) /\ UNCHANGED <<choice, file, ghosts>>
       \/ \E found \in Junk..Latest :
            LET t == IF args.to # NoTag /\ ~args.check THEN args.to ELSE found
                upToDate == ~IsNewer(t, cur) /\ args.to = NoTag
            IN /\ tag' = t
               /\ \/ args.check /\ Return(IF IsNewer(t, cur) THEN 1 ELSE 0)
                  \/ ~args.check /\ upToDate /\ ~args.force /\ Return(0)
                  \/ ~args.check /\ (~upToDate \/ args.force) /\ args.dryRun /\ Return(0)
                  \/ ~args.check /\ (~upToDate \/ args.force) /\ ~args.dryRun
                     /\ Goto("download")
               /\ UNCHANGED <<args, cur, file, ghosts>>

\* Faulty: the checksum is fetched and not compared.
VerifySum_Skipped(intact) == TRUE

\* verify_sum: whether the archive is the one checksums.txt lists.
VerifySum(intact) == intact

\* download_verified up to the write: any step may fail, and does for a tag that
\* is no release (its assets do not exist); an archive that is not
\* the released one does not pass verify_sum.  fs::write starts by emptying the
\* staged file.
Download ==
    /\ pc = "download"
    /\ \/ Return(1) /\ UNCHANGED file
       \/ \E intact \in BOOLEAN :
            /\ tag # Junk
            /\ IF VerifySum(intact)
               THEN /\ Put("staged", Binary(IF intact THEN tag ELSE Junk, FALSE,
                                            file["staged"].exec))
                    /\ Goto("write")
               ELSE Return(1) /\ UNCHANGED file
    /\ UNCHANGED <<choice, ghosts>>

\* The rest of fs::write, which may run out of space.
Write ==
    /\ pc = "write"
    /\ \/ Put("staged", [file["staged"] EXCEPT !.whole = TRUE]) /\ Goto("chmod")
       \/ Return(1) /\ UNCHANGED file
    /\ UNCHANGED <<choice, ghosts>>

Chmod ==
    /\ pc = "chmod"
    /\ \/ Put("staged", [file["staged"] EXCEPT !.exec = TRUE]) /\ Goto("replace")
       \/ Return(1) /\ UNCHANGED file
    /\ UNCHANGED <<choice, ghosts>>

-----------------------------------------------------------------------------
(* replace.rs.  A failure removes the staged file, if that can be done.     *)

GiveUp == (Put("staged", Absent) \/ UNCHANGED file) /\ Return(1)

\* atomic_replace_with_sudo asks anew whether the directory is writable.
Replace ==
    /\ pc = "replace"
    /\ \/ Goto("unlinkBak") /\ UNCHANGED file
       \/ Goto("sudo") /\ UNCHANGED file
       \/ GiveUp
    /\ UNCHANGED <<choice, ghosts>>

\* Whether the old backup could be removed is not looked at.
UnlinkBak ==
    /\ pc = "unlinkBak"
    /\ Put("bak", Absent) \/ UNCHANGED file
    /\ Goto("copyBak")
    /\ UNCHANGED <<choice, ghosts>>

CopyBak ==
    /\ pc = "copyBak"
    /\ \/ GiveUp
       \/ Put("bak", [file["target"] EXCEPT !.whole = FALSE]) /\ Goto("copyingBak")
    /\ UNCHANGED <<choice, ghosts>>

CopyingBak ==
    /\ pc = "copyingBak"
    /\ GiveUp \/ (Put("bak", file["target"]) /\ Goto("rename"))
    /\ UNCHANGED <<choice, ghosts>>

\* Faulty: copies over the installed binary.
Rename_Copies ==
    /\ pc = "rename"
    /\ Put("target", [file["staged"] EXCEPT !.whole = FALSE])
    /\ Goto("setExec")
    /\ UNCHANGED <<choice, ghosts>>

\* One system call.  It cannot cross file systems, which a staging directory
\* elsewhere may need.
Rename ==
    /\ pc = "rename"
    /\ \/ GiveUp
       \/ /\ file' = [file EXCEPT !["target"] = file["staged"], !["staged"] = Absent]
          /\ Goto("setExec")
    /\ UNCHANGED <<choice, ghosts>>

\* The staged file was executable already.  If it fails, the update is reported
\* as failed although the new binary is in place.
SetExec ==
    /\ pc = "setExec"
    /\ \/ Put("target", [file["target"] EXCEPT !.exec = TRUE]) /\ Goto("unlinkAlias")
       \/ GiveUp
    /\ UNCHANGED <<choice, ghosts>>

\* sudo install -m 0755, which unlinks the target and copies the staged file.
Sudo ==
    /\ pc = "sudo"
    /\ \/ GiveUp
       \/ /\ Put("target", Binary(file["staged"].release, FALSE, FALSE))
          /\ Goto("sudoing")
    /\ UNCHANGED <<choice, ghosts>>

Sudoing ==
    /\ pc = "sudoing"
    /\ \/ /\ \E left \in {Absent, file["staged"]} :
                file' = [file EXCEPT !["target"] = Binary(file["staged"].release, TRUE, TRUE),
                                     !["staged"] = left]
          /\ Goto("unlinkAlias")
          /\ UNCHANGED torn
       \/ GiveUp /\ torn' = TRUE
    /\ UNCHANGED <<choice, runs, before>>

\* link_alias: failures are warnings.
UnlinkAlias ==
    /\ pc = "unlinkAlias"
    /\ \/ Put("alias", Absent) /\ Goto("symlink")
       \/ UNCHANGED file /\ Goto("symlink")
       \/ UNCHANGED file /\ Return(0)
    /\ UNCHANGED <<choice, ghosts>>

Symlink ==
    /\ pc = "symlink"
    /\ Put("alias", Binary(Junk, TRUE, TRUE)) \/ UNCHANGED file
    /\ Return(0)
    /\ UNCHANGED <<choice, ghosts>>

\* The process is killed; what is on disk stays.
Crash ==
    /\ pc # "down"
    /\ pc' = "down" /\ code' = NoExit
    /\ torn' = (torn \/ pc = "sudoing")
    /\ UNCHANGED <<choice, file, runs, before>>

UpdateNext == \/ StartUpdate \/ Resolve \/ Download \/ Write \/ Chmod
              \/ Replace \/ UnlinkBak \/ CopyBak \/ CopyingBak \/ Rename \/ SetExec
              \/ Sudo \/ Sudoing \/ UnlinkAlias \/ Symlink \/ Crash

UpdateSpec == UpdateInit /\ [][UpdateNext]_updateVars

-----------------------------------------------------------------------------
(* Properties.                                                             *)

\* Wherever the update fails or is killed, the command that is installed is a
\* whole binary of some release that verified, and can be run; unless install(1)
\* was needed, and killed (replace.rs: atomic_replace).  Once the new binary is
\* in place without sudo, the backup is the one that was there before, whole,
\* whatever earlier runs that died have left behind.
TargetRunnable ==
    /\ ~torn /\ pc # "sudoing" =>
          Runnable(file["target"]) /\ file["target"].release # Junk
    /\ pc = "setExec" => file["bak"] = before

\* "updated to <tag>" with exit code 0 is said only of an installed binary that
\* is that release's: one that verified, not one that a mirror, an earlier run or
\* a short write left behind.
ExitTellsTruth ==
    [][code' = 0 /\ pc \in {"symlink", "unlinkAlias"} => file'["target"].release = tag]_updateVars

\* Without --to or --force no update ever installs an older release than the
\* one that runs, and --check and --dry-run install nothing.
NoDowngrade ==
    [][file'["target"] # file["target"] =>
         /\ ~args.check /\ ~args.dryRun
         /\ args.to = NoTag /\ ~args.force => tag > before.release]_updateVars

=============================================================================
