----------------------------- MODULE SeedDownload -----------------------------
(***************************************************************************)
(* The locked seed of Valve's client                                       *)
(* (scripts/bootstrap-steam-arm64-client.py install, which setup's prepare *)
(* calls): manifest and archive are downloaded into a cache, through a     *)
(* partial file whose name all runs share, and the archive is unpacked     *)
(* into a staging directory that is renamed to the destination.            *)
(*                                                                         *)
(* No lock keeps two runs from each other.  A run may be killed at any     *)
(* step; a download may fail, end early or bring something else.           *)
(*                                                                         *)
(* The operators called ...Bug each hold the definition after them with    *)
(* one mistake, for mutation runs.                                         *)
(***************************************************************************)
EXTENDS Naturals, Sequences

CONSTANTS
    Installers,
    MaxFiles,       \* bound: partial files that are opened
    MaxKills        \* bound: runs that are killed

VARIABLES
    lock,           \* the lock file, which nobody changes
    entry,          \* the directory entries of the cache: numbers of files, 0 for none
    content,        \* what each file holds
    seed,           \* the destination
    installer,
    kills,
    alone           \* has no run been started while another one went on?

downloadVars == <<lock, entry, content, seed, installer, kills, alone>>

------------------------------------------------------------------------------
(* Data *)

SeedDownloadAssumption == MaxFiles \in Nat /\ MaxKills \in Nat

Names == {"manifest", "archive"}

\* members, executable: the archive is the one that the lock names by its hash, but has other
\* members, unsafe ones or another executable than the lock says.
Locks == {"fit", "members", "executable", "invalid"}

\* staging: what the run has unpacked.
Installer == [pc : {"idle", "look", "open", "write", "verify", "rename", "clean", "inspect",
                    "stage", "unpack", "check", "place", "undo"},
              name : Names, own : Nat, staging : {"none", "short", "whole"},
              exit : {"none", "ok", "failed", "killed"}]

Idle == [pc |-> "idle", name |-> "manifest", own |-> 0, staging |-> "none", exit |-> "none"]

DownloadInit ==
    /\ lock \in Locks
    /\ entry = [name \in Names |-> [final |-> 0, partial |-> 0]]
    /\ content = <<>>
    /\ seed = "none"
    /\ installer = [p \in Installers |-> Idle]
    /\ kills = 0 /\ alone = TRUE

At(p, pc) == installer[p].pc = pc

Go(p, pc) == installer' = [installer EXCEPT ![p].pc = pc]

End(p, exit) ==
    installer' = [installer EXCEPT ![p] = [Idle EXCEPT !.exit = exit]]

Final(p) == entry[installer[p].name].final
Partial(p) == entry[installer[p].name].partial

\* verify_locked_file: a regular file of the locked size and hash.
Locked(file) == file # 0 /\ content[file] = "locked"

------------------------------------------------------------------------------
(* download_locked *)

Start(p) ==
    /\ At(p, "idle")
    /\ alone' = (alone /\ \A q \in Installers : At(q, "idle"))
    /\ IF lock = "invalid" THEN End(p, "failed")
       ELSE installer' = [installer EXCEPT ![p] = [Idle EXCEPT !.pc = "look"]]
    /\ UNCHANGED <<lock, entry, content, seed, kills>>

\* The manifest is followed by the archive, and that by unpacking it.
Have(p) ==
    IF installer[p].name = "manifest"
    THEN installer' = [installer EXCEPT ![p].pc = "look", ![p].name = "archive"]
    ELSE Go(p, "inspect")

\* What is in the cache is verified and not downloaded; a partial file stops the run.
Look(p) ==
    /\ At(p, "look")
    /\ IF Final(p) # 0
       THEN IF Locked(Final(p)) THEN Have(p) ELSE End(p, "failed")
       ELSE IF Partial(p) # 0 THEN End(p, "failed") ELSE Go(p, "open")
    /\ UNCHANGED <<lock, entry, content, seed, kills, alone>>

\* The request may fail; and the partial file is opened exclusively.
Open(p) ==
    /\ At(p, "open") /\ Len(content) < MaxFiles
    /\ \/ Go(p, "clean") /\ UNCHANGED <<entry, content>>
       \/ /\ Partial(p) = 0
          /\ content' = Append(content, "short")
          /\ entry' = [entry EXCEPT ![installer[p].name].partial = Len(content')]
          /\ installer' = [installer EXCEPT ![p].pc = "write", ![p].own = Len(content')]
    /\ UNCHANGED <<lock, seed, kills, alone>>

\* The body is written to the file that was opened, whatever its name is by now: all of it, some
\* of it, another one of no more bytes, or the writing stops with an error.
Write(p) ==
    /\ At(p, "write")
    /\ \E body \in {"locked", "short", "other"} :
          content' = [content EXCEPT ![installer[p].own] = body]
    /\ Go(p, "verify") \/ (content' = content /\ Go(p, "clean"))
    /\ UNCHANGED <<lock, entry, seed, kills, alone>>

\* By its name, which another run may have given to a file of its own.
Verify(p) ==
    /\ At(p, "verify")
    /\ Go(p, IF Locked(Partial(p)) THEN "rename" ELSE "clean")
    /\ UNCHANGED <<lock, entry, content, seed, kills, alone>>

Rename(p) ==
    /\ At(p, "rename")
    /\ IF Partial(p) = 0 THEN Go(p, "clean") /\ UNCHANGED entry
       ELSE /\ entry' = [entry EXCEPT ![installer[p].name] = [final |-> @.partial, partial |-> 0]]
            /\ Have(p)
    /\ UNCHANGED <<lock, content, seed, kills, alone>>

\* The partial file stays.
CleanBug(p) ==
    /\ At(p, "clean")
    /\ End(p, "failed")
    /\ UNCHANGED <<lock, entry, content, seed, kills, alone>>

\* except BaseException: the partial file goes, whoever's it is.
Clean(p) ==
    /\ At(p, "clean")
    /\ entry' = [entry EXCEPT ![installer[p].name].partial = 0]
    /\ End(p, "failed")
    /\ UNCHANGED <<lock, content, seed, kills, alone>>

------------------------------------------------------------------------------
(* extract_archive *)

\* inspect_archive: hash, number, names, types and sizes of the members.
Inspect(p) ==
    /\ At(p, "inspect")
    /\ IF Locked(entry["archive"].final) /\ lock # "members" THEN Go(p, "stage")
       ELSE End(p, "failed")
    /\ UNCHANGED <<lock, entry, content, seed, kills, alone>>

Stage(p) ==
    /\ At(p, "stage")
    /\ IF seed # "none" THEN End(p, "failed")
       ELSE installer' = [installer EXCEPT ![p].pc = "unpack", ![p].staging = "short"]
    /\ UNCHANGED <<lock, entry, content, seed, kills, alone>>

\* Directories, files, then links; the archive is opened once more, by its name.
Unpack(p) ==
    /\ At(p, "unpack")
    /\ \/ Go(p, "undo")
       \/ /\ Locked(entry["archive"].final)
          /\ installer' = [installer EXCEPT ![p].pc = "check", ![p].staging = "whole"]
    /\ UNCHANGED <<lock, entry, content, seed, kills, alone>>

\* verify_seed_executable
Check(p) ==
    /\ At(p, "check")
    /\ Go(p, IF lock = "executable" THEN "undo" ELSE "place")
    /\ UNCHANGED <<lock, entry, content, seed, kills, alone>>

\* os.replace: a directory that is not empty is not replaced.
Place(p) ==
    /\ At(p, "place")
    /\ IF seed = "none" THEN seed' = installer[p].staging /\ End(p, "ok")
       ELSE Go(p, "undo") /\ UNCHANGED seed
    /\ UNCHANGED <<lock, entry, content, kills, alone>>

Undo(p) ==
    /\ At(p, "undo")
    /\ End(p, "failed")
    /\ UNCHANGED <<lock, entry, content, seed, kills, alone>>

Kill(p) ==
    /\ kills < MaxKills /\ ~At(p, "idle")
    /\ kills' = kills + 1
    /\ End(p, "killed")
    /\ UNCHANGED <<lock, entry, content, seed, alone>>

DownloadNext ==
    \E p \in Installers :
       \/ Start(p) \/ Look(p) \/ Open(p) \/ Write(p) \/ Verify(p) \/ Rename(p) \/ Clean(p)
       \/ Inspect(p) \/ Stage(p) \/ Unpack(p) \/ Check(p) \/ Place(p) \/ Undo(p) \/ Kill(p)

DownloadSpec == DownloadInit /\ [][DownloadNext]_downloadVars

------------------------------------------------------------------------------
(* Properties *)

\* When every run has ended of itself, in whatever order they opened, removed and renamed each
\* other's partial file, none is left, so that the next run is not refused.
NothingPartial ==
    kills = 0 /\ (\A p \in Installers : At(p, "idle")) =>
        \A name \in Names : entry[name].partial = 0

\* The destination is whole, and of an archive that the lock describes, whatever becomes of the
\* files of the cache while it is unpacked.
SeedIsWhole ==
    /\ seed # "none" => seed = "whole" /\ lock = "fit"
    /\ \A p \in Installers : installer[p].exit = "ok" => seed = "whole"

\* Runs one after another, killed or not, leave only locked files under the final names.
CacheIsLocked == alone => \A name \in Names : entry[name].final # 0 => Locked(entry[name].final)

DownloadTells == NothingPartial /\ SeedIsWhole /\ CacheIsLocked

===============================================================================
