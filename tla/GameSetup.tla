----------------------------- MODULE GameSetup -----------------------------
(***************************************************************************)
(* The first launch: packaging/ports/codboz/CODBOZ.sh runs codboz_setup    *)
(* when game data is missing, and codboz_setup extracts the payload from   *)
(* the APK and downloads the resource archives.                            *)
(*                                                                         *)
(* What is on the card outlives a run.  The script keeps no note of how    *)
(* far it came: each run finds that out from the files.  It may be         *)
(* cancelled, or the device turned off, between any two steps.  A file is  *)
(* what a test can tell of it: missing or empty ("none"), there but not    *)
(* what it should be ("wrong"), or "right".                                *)
(***************************************************************************)
EXTENDS Naturals

CONSTANT N  \* the number of archives, downloaded in the order 1 .. N

ASSUME NAssumption == N \in Nat \ {0}

Archives == 1..N
Content == {"none", "wrong", "right"}

VARIABLES archive,  \* the archives under their final names
          payload,  \* boz.s3e.unpacked
          apk,      \* game.apk
          phase,    \* what is running
          index,    \* the archive being downloaded
          attempt,  \* of downloading it
          launched, \* the setup was started by the launcher
          patient   \* from now on nobody cancels and the power stays on

files == <<archive, payload, apk>>
vars == <<archive, payload, apk, phase, index, attempt, launched, patient>>

SetupPhases == {"check", "remove", "apk", "extract", "decompress", "network",
                "present", "fetch", "stored", "final", "complete"}

TypeOK == /\ archive \in [Archives -> Content]
          /\ payload \in Content
          /\ apk \in Content
          /\ phase \in SetupPhases \cup {"off", "relaunch", "playing"}
          /\ index \in Archives
          /\ attempt \in 1..2
          /\ launched \in BOOLEAN
          /\ patient \in BOOLEAN

Init == /\ archive = [a \in Archives |-> "none"]
        /\ payload = "none"
        /\ apk \in Content
        /\ phase = "off"
        /\ index = 1
        /\ attempt = 1
        /\ launched = FALSE
        /\ patient = FALSE

HasGameData == payload # "none" /\ \A a \in Archives : archive[a] # "none"

Verified(a) == archive[a] = "right"

Goto(p) == phase' = p
Keep == UNCHANGED <<index, attempt, launched, patient>>

\* The script ends, for whatever reason: the launcher, if it waits, goes on.
Exit == Goto(IF launched THEN "relaunch" ELSE "off") /\ Keep

-----------------------------------------------------------------------------
(* The user and the launcher. *)

CopyApk == /\ phase = "off" /\ apk # "right"
           /\ apk' \in {"wrong", "right"}
           /\ UNCHANGED <<archive, payload, phase>> /\ Keep

Launch == /\ phase = "off"
          /\ IF HasGameData THEN Goto("playing") /\ UNCHANGED launched
             ELSE Goto("check") /\ launched' = TRUE
          /\ UNCHANGED <<files, index, attempt, patient>>

RunSetup == /\ phase = "off"
            /\ Goto("check") /\ launched' = FALSE
            /\ UNCHANGED <<files, index, attempt, patient>>

\* The setup is over: what it said is not asked, only what there is.
Relaunch == /\ phase = "relaunch"
            /\ Goto(IF HasGameData THEN "playing" ELSE "off")
            /\ UNCHANGED files /\ Keep

Quit == phase = "playing" /\ Goto("off") /\ UNCHANGED files /\ Keep

BecomePatient == ~patient /\ patient' = TRUE /\ UNCHANGED <<files, phase, index, attempt, launched>>

Cancel == ~patient /\ phase \in SetupPhases /\ Exit /\ UNCHANGED files

PowerOff == ~patient /\ phase # "off" /\ Goto("off") /\ UNCHANGED files /\ Keep

-----------------------------------------------------------------------------
(* codboz_setup. *)

CheckTrusting ==
    /\ phase = "check" /\ apk # "none" /\ HasGameData
    /\ Goto("complete")
    /\ UNCHANGED files /\ Keep

Check == /\ phase = "check"
         /\ IF apk = "none" THEN Exit
            ELSE Goto(IF ~HasGameData THEN "apk"
                      ELSE IF \A a \in Archives : Verified(a) THEN "complete"
                      ELSE "remove") /\ Keep
         /\ UNCHANGED files

\* Mutation of Remove: nothing is removed.
RemoveNone == phase = "remove" /\ Goto("apk") /\ UNCHANGED files /\ Keep

\* rm takes one file after the other.
Remove == /\ phase = "remove"
          /\ \/ \E a \in Archives : /\ archive[a] # "none"
                                    /\ \A b \in Archives : b < a => archive[b] = "none"
                                    /\ archive' = [archive EXCEPT ![a] = "none"]
                                    /\ UNCHANGED phase
             \/ /\ \A a \in Archives : archive[a] = "none"
                /\ Goto("apk")
                /\ UNCHANGED archive
          /\ UNCHANGED <<payload, apk>> /\ Keep

VerifyApk == /\ phase = "apk"
             /\ IF apk = "right" THEN Goto("extract") /\ Keep ELSE Exit
             /\ UNCHANGED files

ExtractFails == phase \in {"extract", "decompress"} /\ Exit /\ UNCHANGED files

\* The APK's entries are copied and decompressed in memory; then the payload's file is
\* truncated, and it is written in place.
Extract == /\ phase = "extract"
           /\ payload' \in {"none", "wrong"}
           /\ Goto("decompress")
           /\ UNCHANGED <<archive, apk>> /\ Keep

Decompress == /\ phase = "decompress"
              /\ payload' = "right"
              /\ Goto("network")
              /\ UNCHANGED <<archive, apk>> /\ Keep

NoNetwork == phase = "network" /\ Exit /\ UNCHANGED files

Network == /\ phase = "network"
           /\ Goto("present")
           /\ index' = 1
           /\ UNCHANGED <<files, attempt, launched, patient>>

NextArchive == IF index < N THEN Goto("present") /\ index' = index + 1
               ELSE Goto("final") /\ UNCHANGED index

\* Mutation of Present: a wrong archive is not removed.
PresentFails == /\ phase = "present"
                /\ IF Verified(index) THEN NextArchive /\ UNCHANGED <<attempt, launched>>
                   ELSE IF archive[index] = "none"
                   THEN Goto("fetch") /\ attempt' = 1 /\ UNCHANGED <<index, launched>>
                   ELSE Exit
                /\ UNCHANGED <<files, patient>>

\* An archive there already is kept if it is the right one and removed if not.
Present == /\ phase = "present"
           /\ IF Verified(index) THEN NextArchive /\ UNCHANGED <<archive, attempt>>
              ELSE /\ archive' = [archive EXCEPT ![index] = "none"]
                   /\ Goto("fetch")
                   /\ attempt' = 1
                   /\ UNCHANGED index
           /\ UNCHANGED <<payload, apk, launched, patient>>

FetchFails == phase = "fetch" /\ Exit /\ UNCHANGED files

\* What the server gave is downloaded to a .part file, which takes the final name
\* before it is verified.
Fetch(got) == /\ phase = "fetch"
              /\ archive' = [archive EXCEPT ![index] = got]
              /\ Goto("stored")
              /\ UNCHANGED <<payload, apk>> /\ Keep

\* Mutation of Verify: kept when the attempts are used up.
VerifyKeeping == /\ phase = "stored"
                 /\ IF Verified(index) \/ attempt = 2 THEN NextArchive /\ UNCHANGED attempt
                    ELSE Goto("fetch") /\ attempt' = 2 /\ UNCHANGED index
                 /\ UNCHANGED <<files, launched, patient>>

Verify == /\ phase = "stored"
          /\ IF Verified(index) THEN NextArchive /\ UNCHANGED <<archive, attempt, launched>>
             ELSE /\ archive' = [archive EXCEPT ![index] = "none"]
                  /\ IF attempt = 1
                     THEN Goto("fetch") /\ attempt' = 2 /\ UNCHANGED <<index, launched>>
                     ELSE Exit
          /\ UNCHANGED <<payload, apk, patient>>

Finish == /\ phase = "final"
          /\ IF HasGameData THEN Goto("complete") /\ Keep ELSE Exit
          /\ UNCHANGED files

Complete == phase = "complete" /\ Exit /\ UNCHANGED files

Setup == \/ Check \/ Remove \/ VerifyApk \/ ExtractFails \/ Extract \/ Decompress
         \/ NoNetwork \/ Network \/ Present \/ FetchFails \/ (\E got \in {"wrong", "right"} : Fetch(got))
         \/ Verify \/ Finish \/ Complete

Next == CopyApk \/ Launch \/ RunSetup \/ Relaunch \/ Quit \/ BecomePatient \/ Cancel \/ PowerOff \/ Setup

Spec == Init /\ [][Next]_vars

\* The user finds the right APK and launches again; the scripts run; what can fail
\* does not fail every time.
FairSpec == /\ Spec
            /\ SF_vars(CopyApk /\ apk' = "right")
            /\ SF_vars(Launch)
            /\ WF_vars(Setup \/ Relaunch \/ Quit)
            /\ SF_vars(Extract) /\ SF_vars(Decompress) /\ SF_vars(Network)
            /\ \A a \in Archives : SF_vars(index = a /\ Fetch("right"))

-----------------------------------------------------------------------------
\* When the setup says it is complete, the payload and every archive are right,
\* whatever earlier runs that failed or were cut off have left behind.
CompleteIsRight == phase = "complete" => payload = "right" /\ \A a \in Archives : Verified(a)

\* Game data is never taken to be there with a payload that was cut off: the payload
\* is written in place, and what protects it is that some archive is missing then.
PayloadRight == HasGameData => payload = "right"

\* A user no longer cut off comes to play: nothing that the runs before have left on
\* the card makes every later run fail.
PlaysInTheEnd == patient ~> phase = "playing"

\* The launcher starts the game only after a setup that produced its data, and an
\* archive whose checksum fails is not its data.
PlaysVerified == phase = "playing" => \A a \in Archives : Verified(a)
=============================================================================
