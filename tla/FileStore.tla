----------------------------- MODULE FileStore -----------------------------
(***************************************************************************)
(* The files of src/s3e_file.c.  A name the game opens may be found in the *)
(* player's directory (HOME), in several places below the game's root, or  *)
(* in the game's archive, of which an index is read at the first need.  A  *)
(* file opened to be written goes to the player's directory; opened to be  *)
(* read there for the first time it is copied from the game's own.         *)
(*                                                                         *)
(* HOME is not the root, as the launcher has it, so deleting a name, which *)
(* works below the root, never touches the player's copy.  An entry of the *)
(* archive is opened from a buffer in memory, which the code frees when    *)
(* the file is closed; the list item that remembers it is always had.      *)
(* Contents are left out but for whose they are, and so are console.bin,   *)
(* which opens as nothing, the archive's own name, and what a game writes  *)
(* into its own file when it opens that to be changed.                     *)
(***************************************************************************)
EXTENDS Sequences, SequencesExt

CONSTANTS Names,      \* the names the game uses
          UserNamed,  \* those ending in .i3d, which are always the player's
          Preferred,  \* those below data-etc, data-dxt or data-atitc
          Grouped,    \* those of a .group.bin in a directory
          Nested,     \* the others in a directory
          Files       \* the addresses of open files

ASSUME NameKinds == /\ UNION {UserNamed, Preferred, Grouped, Nested} \subseteq Names
                    /\ Grouped \cap Nested = {}

VARIABLES disk,    \* the places below the root at which each name is found
          archive, \* the entries of a good archive, or {}
          index,   \* the entries the code knows
          indexed, \* g_dtrz.loaded
          user,    \* the player's copy of each name: none, part or all of the game's, or the game's own writing
          open,    \* what each open file reads, by address
          tracked  \* g_memory_files

storeVars == <<disk, archive, index, indexed, user, open, tracked>>

Here == <<"root", "assets", "gles1", "sw">>
Flat == <<"flat_gles1", "flat_sw", "flat_assets">>
Leaf == <<"leaf_gles1", "leaf_sw", "leaf_assets">>
Places == UNION {ToSet(Here), ToSet(Flat), ToSet(Leaf)}
Copies == {"none", "part", "seed", "own"}

StoreTypeOK == /\ disk \in [Names -> SUBSET Places]
               /\ archive \subseteq Names /\ index \subseteq archive
               /\ indexed \in BOOLEAN
               /\ user \in [Names -> Copies]
               /\ open \in [Files -> Places \cup {"closed", "user", "memory"}]
               /\ tracked \subseteq Files

StoreInit(disks, archives) == /\ disk \in disks /\ archive \in archives
                              /\ index = {} /\ indexed = FALSE
                              /\ user = [n \in Names |-> "none"]
                              /\ open = [f \in Files |-> "closed"]
                              /\ tracked = {}

\* resolve_read_path: where a name is looked for, in this order.
Candidates(n) == Here \o (IF n \in Grouped THEN Flat ELSE <<>>)
                      \o (IF n \in Grouped \cup Nested THEN Leaf ELSE <<>>)

FoundAt(n) == {i \in DOMAIN Candidates(n) : Candidates(n)[i] \in disk[n]}
Resolved(n) == FoundAt(n) # {}
FirstPlace(n) == Candidates(n)[Min(FoundAt(n))]

\* s3eFileOpen, mode "rb": what the file opened reads if nothing fails, given the index.
InTheEnd(n, entries) == IF "assets" \in disk[n] THEN "assets"
                        ELSE IF n \in entries THEN "memory" ELSE "none"

\* Mutation of ReadsFrom: a name in the player's directory is looked for below the root.
ReadsBelowRoot(n, entries) == IF n \in Preferred /\ n \in entries THEN "memory"
                              ELSE IF Resolved(n) THEN FirstPlace(n)
                              ELSE InTheEnd(n, entries)

ReadsFrom(n, entries) == IF n \in UserNamed THEN IF user[n] # "none" THEN "user" ELSE InTheEnd(n, entries)
                         ELSE IF n \in Preferred /\ n \in entries THEN "memory"
                         ELSE IF Resolved(n) THEN FirstPlace(n)
                         ELSE InTheEnd(n, entries)

\* s3eFileCheckExists.
Exists(n, entries) == IF n \in UserNamed THEN user[n] # "none" ELSE n \in entries \/ Resolved(n)

\* dtrz_load_index, at the first need; what could not be read then is not there for
\* the rest of the process.
Consulting(needed, entries) ==
    IF indexed \/ ~needed THEN entries = index /\ UNCHANGED <<index, indexed>>
    ELSE entries \in {archive, {}} /\ index' = entries /\ indexed' = TRUE

NeedsIndex(n) == \/ n \in Preferred \ UserNamed
                 \/ ReadsFrom(n, {n}) # ReadsFrom(n, {})

-----------------------------------------------------------------------------
(* What the game calls. *)

CheckExists(n) == /\ \E entries \in {index, archive, {}} :
                        Consulting(NeedsIndex(n) /\ n \notin UserNamed, entries)
                  /\ UNCHANGED <<disk, archive, user, open, tracked>>

\* The file takes an address no open file has, and a buffer is remembered under it.
Opened(from) ==
    IF from = "none" THEN UNCHANGED <<open, tracked>>
    ELSE \E f \in Files : /\ open[f] = "closed"
                          /\ open' = [open EXCEPT ![f] = from]
                          /\ tracked' = IF from = "memory" THEN tracked \cup {f} ELSE tracked

\* The entry may fail to be read, and then it is as if it were not there; or no file
\* can be opened at all.
OpenToRead(n) == /\ \E entries \in {index, archive, {}} :
                       /\ Consulting(NeedsIndex(n), entries)
                       /\ \E from \in {ReadsFrom(n, entries), ReadsFrom(n, {}), "none"} : Opened(from)
                 /\ UNCHANGED <<disk, archive, user>>

\* Mutation of Seeded: copied again each time.
SeededAgain(n) == IF n \notin UserNamed /\ Resolved(n) THEN {"none", "part", "seed"} ELSE {user[n]}

\* The player's copy as s3eFileOpen leaves it: made from the game's own if there is
\* none, and not looked at if it was cut off.
Seeded(n) == IF n \notin UserNamed /\ user[n] = "none" /\ Resolved(n) THEN {"none", "part", "seed"}
             ELSE {user[n]}

\* A file of the player's opened to be read (a mode with U).
OpenUser(n) ==
    /\ \E copy \in Seeded(n), entries \in {index, archive, {}} :
          /\ user' = [user EXCEPT ![n] = copy]
          /\ Consulting(copy = "none" /\ "assets" \notin disk[n], entries)
          /\ Opened(IF copy = "none" THEN InTheEnd(n, entries) ELSE "user")
    /\ UNCHANGED <<disk, archive>>

\* Opened to be changed in place (r+), and changed: with no copy it is the game's own
\* file that is opened and changed.
OpenInPlace(n) ==
    /\ \E copy \in Seeded(n) :
          \/ /\ copy # "none"
             /\ user' = [user EXCEPT ![n] = "own"]
             /\ Opened("user")
          \/ /\ copy = "none"
             /\ Opened(IF "assets" \in disk[n] THEN "assets" ELSE "none")
             /\ UNCHANGED user
    /\ UNCHANGED <<disk, archive, index, indexed>>

\* Opened to be written or added to, and written.
OpenToWrite(n) == /\ user' = [user EXCEPT ![n] = "own"]
                  /\ Opened("user")
                  /\ UNCHANGED <<disk, archive, index, indexed>>

Close(f) == /\ open[f] # "closed"
            /\ open' = [open EXCEPT ![f] = "closed"]
            /\ tracked' = tracked \ {f}
            /\ UNCHANGED <<disk, archive, index, indexed, user>>

\* Deleting and renaming are of the names below the root.
Delete(n) == /\ "root" \in disk[n]
             /\ disk' = [disk EXCEPT ![n] = @ \ {"root"}]
             /\ UNCHANGED <<archive, index, indexed, user, open, tracked>>

Rename(n, to) == /\ "root" \in disk[n] /\ n # to
                 /\ disk' = [disk EXCEPT ![n] = @ \ {"root"}, ![to] = @ \cup {"root"}]
                 /\ UNCHANGED <<archive, index, indexed, user, open, tracked>>

\* close_all_memory_files, when the host shuts down.
CloseMemoryFiles == /\ open' = [f \in Files |-> IF f \in tracked THEN "closed" ELSE open[f]]
                    /\ tracked' = {}

\* The process ends: every file is closed.
StoreProcessEnds == /\ index' = {} /\ indexed' = FALSE
                    /\ open' = [f \in Files |-> "closed"] /\ tracked' = {}
                    /\ UNCHANGED <<disk, archive>>

\* The player's copies as the power may leave them: nothing flushes them, so each may be
\* as it is, as it was before or gone.  A writing cut short is still the game's own, and
\* what was deleted and renamed below the root is taken as done.
CopiesLeft ==
    LET before(n) == IF n \in UserNamed \/ user[n] \notin {"seed", "own"} THEN {"none"}
                     ELSE {"none", "part", "seed"}
    IN  {copies \in [Names -> Copies] : \A n \in Names : copies[n] \in {user[n]} \cup before(n)}

StoreNext == \/ \E n \in Names : \/ CheckExists(n)
                                 \/ OpenToRead(n) \/ OpenUser(n) \/ OpenInPlace(n) \/ OpenToWrite(n)
                                 \/ Delete(n)
                                 \/ \E to \in Names : Rename(n, to)
             \/ \E f \in Files : Close(f)

-----------------------------------------------------------------------------
\* What the game is told exists it can open to read, whichever of the places below the
\* root, the archive and the player's directory have it.
FoundOpens == LET entries == IF indexed THEN index ELSE archive
              IN  \A n \in Names : Exists(n, entries) => ReadsFrom(n, entries) # "none"
=============================================================================
