-------------------------- MODULE GameSetupProofs --------------------------
(***************************************************************************)
(* The safety of GameSetup, for any number of archives.  The argument: the *)
(* archives are downloaded only after the payload has been written whole,  *)
(* and it is written only while some archive is missing.  So if all        *)
(* archives are there, the payload is right, at every moment a run may be  *)
(* cut off.                                                                *)
(***************************************************************************)
EXTENDS GameSetup, TLAPS

AllThere == \A a \in Archives : archive[a] # "none"

\* The phases that follow the extraction.
Extracted == {"network", "present", "fetch", "stored", "final", "complete"}

PayloadFirst == AllThere => payload = "right"

Missing == phase \in {"apk", "extract", "decompress"} => ~AllThere

PayloadThere == phase \in Extracted \cup {"remove"} => payload = "right"

VerifiedSoFar == /\ phase \in {"present", "fetch", "stored"} =>
                        \A a \in Archives : a < index => Verified(a)
                 /\ phase \in {"final", "complete"} => \A a \in Archives : Verified(a)

IInv == TypeOK /\ PayloadFirst /\ Missing /\ PayloadThere /\ VerifiedSoFar

USE NAssumption

LEMMA InitHolds == Init => IInv
<1> SUFFICES ASSUME Init PROVE IInv
  OBVIOUS
<1>1. 1 \in Archives BY DEF Archives
<1>2. TypeOK
  <2>1. archive \in [Archives -> Content] BY DEF Init, Content
  <2>2. launched \in BOOLEAN /\ patient \in BOOLEAN BY DEF Init
  <2>3. index \in Archives /\ attempt \in 1..2 BY <1>1 DEF Init
  <2> QED BY <2>1, <2>2, <2>3 DEF Init, TypeOK, Content
<1>3. ~AllThere BY <1>1 DEF Init, AllThere
<1> QED BY <1>2, <1>3 DEF Init, IInv, PayloadFirst, Missing, PayloadThere, VerifiedSoFar, Extracted

\* The steps that only look at the files.
LEMMA LookingKeepsIt ==
  ASSUME IInv,
         \/ Launch \/ RunSetup \/ Relaunch \/ Quit \/ BecomePatient \/ Cancel \/ PowerOff
         \/ Check \/ VerifyApk \/ ExtractFails \/ NoNetwork \/ Network \/ FetchFails \/ Finish \/ Complete
  PROVE  IInv'
<1> USE DEF IInv, TypeOK, PayloadFirst, Missing, PayloadThere, VerifiedSoFar, AllThere,
            Extracted, Content, Archives, SetupPhases, Verified, HasGameData,
            Goto, Keep, Exit, files
<1>1. CASE Launch BY <1>1 DEF Launch
<1>2. CASE RunSetup BY <1>2 DEF RunSetup
<1>3. CASE Relaunch BY <1>3 DEF Relaunch
<1>4. CASE Quit BY <1>4 DEF Quit
<1>5. CASE Cancel BY <1>5 DEF Cancel
<1>6. CASE PowerOff BY <1>6 DEF PowerOff
<1>7. CASE Check BY <1>7 DEF Check
<1>8. CASE VerifyApk BY <1>8 DEF VerifyApk
<1>9. CASE ExtractFails BY <1>9 DEF ExtractFails
<1>10. CASE NoNetwork BY <1>10 DEF NoNetwork
<1>11. CASE Network BY <1>11 DEF Network
<1>12. CASE FetchFails BY <1>12 DEF FetchFails
<1>13. CASE Finish BY <1>13 DEF Finish
<1>14. CASE Complete BY <1>14 DEF Complete
<1>15. CASE BecomePatient BY <1>15 DEF BecomePatient
<1> QED BY <1>1, <1>2, <1>3, <1>4, <1>5, <1>6, <1>7, <1>8, <1>9, <1>10, <1>11, <1>12,
           <1>13, <1>14, <1>15

\* The steps that change what is on the card.
LEMMA WritingKeepsIt ==
  ASSUME IInv,
         \/ CopyApk \/ Remove \/ Extract \/ Decompress \/ Present
         \/ (\E got \in {"wrong", "right"} : Fetch(got)) \/ Verify
  PROVE  IInv'
<1> USE DEF IInv, TypeOK, PayloadFirst, Missing, PayloadThere, VerifiedSoFar, AllThere,
            Extracted, Content, Archives, SetupPhases, Verified, Goto, Keep, Exit, files
<1>1. CASE CopyApk BY <1>1 DEF CopyApk
<1>2. CASE Remove
  <2>1. CASE \E a \in Archives : /\ archive[a] # "none"
                                 /\ archive' = [archive EXCEPT ![a] = "none"]
                                 /\ UNCHANGED phase
    BY <1>2, <2>1 DEF Remove
  <2>2. CASE (\A a \in Archives : archive[a] = "none") /\ phase' = "apk" /\ UNCHANGED archive
    <3>1. 1 \in Archives OBVIOUS
    <3>2. archive'[1] = "none" BY <2>2, <3>1
    <3> QED BY <1>2, <2>2, <3>1, <3>2 DEF Remove
  <2> QED BY <1>2, <2>1, <2>2 DEF Remove
<1>3. CASE Extract BY <1>3 DEF Extract
<1>4. CASE Decompress BY <1>4 DEF Decompress
<1>5. CASE Present BY <1>5 DEF Present, NextArchive
<1>6. CASE \E got \in {"wrong", "right"} : Fetch(got) BY <1>6 DEF Fetch
<1>7. CASE Verify BY <1>7 DEF Verify, NextArchive
<1> QED BY <1>1, <1>2, <1>3, <1>4, <1>5, <1>6, <1>7

LEMMA StepHolds == IInv /\ [Next]_vars => IInv'
<1> SUFFICES ASSUME IInv, [Next]_vars PROVE IInv'
  OBVIOUS
<1>1. CASE Next
  BY <1>1, LookingKeepsIt, WritingKeepsIt DEF Next, Setup
<1>2. CASE UNCHANGED vars
  BY <1>2 DEF vars, IInv, TypeOK, PayloadFirst, Missing, PayloadThere, VerifiedSoFar, AllThere,
             Verified
<1> QED BY <1>1, <1>2

\* The inductive invariant holds in every reachable state.
THEOREM Invariance == Spec => []IInv
  BY InitHolds, StepHolds, PTL DEF Spec

\* Every variable keeps its type.
THEOREM TypeCorrect == Spec => []TypeOK
<1>1. IInv => TypeOK BY DEF IInv
<1> QED BY <1>1, Invariance, PTL

\* Game data is never there with a payload that was cut off (has_game_data).
THEOREM PayloadRightHolds == Spec => []PayloadRight
<1>1. IInv => PayloadRight
  BY DEF IInv, PayloadFirst, AllThere, PayloadRight, HasGameData
<1> QED BY <1>1, Invariance, PTL

\* A setup that says it is complete leaves everything right (codboz_setup 313).
THEOREM CompleteIsRightHolds == Spec => []CompleteIsRight
<1>1. IInv => CompleteIsRight
  BY DEF IInv, PayloadThere, VerifiedSoFar, Extracted, CompleteIsRight
<1> QED BY <1>1, Invariance, PTL
=============================================================================
