------------------------------ MODULE DeviceId ------------------------------
(***************************************************************************)
(* The identity of src/device_id.c: 16 random bytes made the first time    *)
(* the game asks, kept in device-id.bin, and told to the game once per     *)
(* process (pthread_once).  The bytes are written to a file of another     *)
(* name, flushed, and moved into place, so a process stopped anywhere      *)
(* leaves no identity or a whole one.  The move itself is not flushed: the *)
(* power may take it back.                                                 *)
(***************************************************************************)
EXTENDS FiniteSets, Naturals

CONSTANT Ids  \* identities

ASSUME NoNullId == 0 \notin Ids

VARIABLES idFile,  \* what device-id.bin holds, 0 for no such file
          idCard,  \* what it will hold after the power fails
          idStep,  \* how far s3e_device_id_get is
          idBytes, \* the identity in g_device_id or on its way there, 0 for none
          idGiven  \* the identities the game was told since the file was last lost (history)

idVars == <<idFile, idCard, idStep, idBytes, idGiven>>

IdTypeOK == /\ {idFile, idCard, idBytes} \subseteq Ids \cup {0}
            /\ idStep \in {"unasked", "load", "create", "stored", "moved", "done"}
            /\ idGiven \subseteq Ids

IdInit == /\ idFile = 0 /\ idCard = 0
          /\ idStep = "unasked" /\ idBytes = 0
          /\ idGiven = {}

\* Between two calls of the game.
IdIdle == idStep \in {"unasked", "done"}

AskId == /\ idStep = "unasked"
         /\ idStep' = "load"
         /\ UNCHANGED <<idFile, idCard, idBytes, idGiven>>

\* load_bytes: a file that is there and cannot be read counts as none.
LoadId == /\ idStep = "load"
          /\ \/ idFile # 0 /\ idBytes' = idFile /\ idStep' = "moved" /\ UNCHANGED idGiven
             \/ idFile = 0 /\ idStep' = "create" /\ UNCHANGED <<idBytes, idGiven>>
             \/ idFile # 0 /\ idStep' = "create" /\ idGiven' = {} /\ UNCHANGED idBytes
          /\ UNCHANGED <<idFile, idCard>>

\* random_bytes, and store_bytes up to the move: nothing another process would read.
StoreId == /\ idStep = "create"
           /\ \E id \in Ids \ (idGiven \cup {idFile, idCard}) : idBytes' = id
           /\ idStep' = "stored"
           /\ UNCHANGED <<idFile, idCard, idGiven>>

MoveId == /\ idStep = "stored"
          /\ idFile' = idBytes
          /\ idStep' = "moved"
          /\ UNCHANGED <<idCard, idBytes, idGiven>>

\* Mutation of CreateIdFails: an identity that could not be kept is told all the same.
CreateIdFailsTold == /\ idStep \in {"create", "stored"}
                     /\ idStep' = "moved"
                     /\ UNCHANGED <<idFile, idCard, idBytes, idGiven>>

\* No identity for the rest of the process.
CreateIdFails == /\ idStep \in {"create", "stored"}
                 /\ idStep' = "done" /\ idBytes' = 0
                 /\ UNCHANGED <<idFile, idCard, idGiven>>

GiveId == /\ idStep = "moved"
          /\ idStep' = "done"
          /\ idGiven' = idGiven \cup ({idBytes} \ {0})
          /\ UNCHANGED <<idFile, idCard, idBytes>>

IdNext == AskId \/ LoadId \/ StoreId \/ MoveId \/ CreateIdFails \/ GiveId

\* The process ends, at any step.
IdProcessEnds == idStep' = "unasked" /\ idBytes' = 0 /\ UNCHANGED <<idFile, idCard, idGiven>>

\* The system writes the directory to the card when it likes.
IdReachesCard == /\ idCard # idFile
                 /\ idCard' = idFile
                 /\ UNCHANGED <<idFile, idStep, idBytes, idGiven>>

IdPowerFails == /\ idFile' = idCard
                /\ idGiven' = IF idCard = idFile THEN idGiven ELSE {}
                /\ idStep' = "unasked" /\ idBytes' = 0
                /\ UNCHANGED idCard

-----------------------------------------------------------------------------
\* The game is told one identity for ever, whatever step the process is stopped at,
\* for as long as the file can be read and the power does not take the move back.
IdKept == Cardinality(idGiven) <= 1
=============================================================================
