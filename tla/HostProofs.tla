----------------------------- MODULE HostProofs -----------------------------
(***************************************************************************)
(* Proofs about HostLifecycle, for any contexts, identities, files, heaps  *)
(* and disks: the one context, the one identity, and that main ends with   *)
(* nothing held.  Each part has an invariant of its own; what a step does  *)
(* to a part is a lemma, and the parts meet in HostStep.                   *)
(*                                                                         *)
(* And about InputPump, for any keys, sticks and triggers: what is held    *)
(* follows the controller, through the stages of a pump, and the game is   *)
(* told of it.                                                             *)
(***************************************************************************)
EXTENDS HostLifecycle, InputPump, FiniteSetTheorems, SequenceTheorems, WellFoundedInduction, TLAPS

-----------------------------------------------------------------------------
(* The context. *)

EglInv == /\ OneContext
          /\ held # 0 /\ ~again => /\ held \in alive /\ context = held /\ valid
                                   /\ ~pending
          /\ {current, pending, valid, again} \subseteq BOOLEAN

LEMMA EglInitially == EglInit => EglInv
  BY DEF EglInit, EglInv, OneContext

LEMMA DeletedLeavesNone == OneContext /\ Deleted => context' = 0 /\ alive' = {} /\ pending' = FALSE
  BY DEF OneContext, Deleted

LEMMA ShutdownKeepsEgl == EglInv /\ EglShutdown => EglInv' /\ alive' = {}
  BY DeletedLeavesNone DEF EglInv, EglShutdown, OneContext

LEMMA UntouchedEgl == EglInv /\ UNCHANGED glVars => EglInv'
  BY DEF EglInv, OneContext, glVars

LEMMA EglStep == EglInv /\ EglNext => EglInv'
<1> SUFFICES ASSUME EglInv, EglNext PROVE EglInv'
  OBVIOUS
<1>1. CASE Initialize \/ CreateWindowSurface \/ DestroySurface \/ CreateContextFails
  BY <1>1, UntouchedEgl DEF Initialize, CreateWindowSurface, DestroySurface, CreateContextFails
<1>2. CASE CreateContext
  <2>1. CASE context = 0
    <3>1. PICK c \in Contexts \ alive : context' = c /\ alive' = alive \cup {c}
      BY <1>2, <2>1 DEF CreateContext, EnsureContext
    <3>2. alive = {} /\ c # 0 /\ ~pending /\ ~current
      BY <2>1, NoNullContext DEF EglInv, OneContext
    <3>3. QED
      BY <1>2, <3>1, <3>2 DEF CreateContext, EglInv, OneContext
  <2>2. CASE context # 0
    BY <1>2, <2>2 DEF CreateContext, EnsureContext, EglInv, OneContext
  <2>3. QED
    BY <2>1, <2>2
<1>3. CASE MakeCurrent
  BY <1>3 DEF MakeCurrent, EglInv, OneContext
<1>4. CASE Release
  BY <1>4 DEF Release, Deleted, EglInv, OneContext
<1>5. ASSUME NEW c \in Contexts \cup {0}, DestroyContext(c) PROVE EglInv'
  BY <1>5 DEF DestroyContext, Deleted, EglInv, OneContext
<1>6. CASE Terminate
  BY <1>6, ShutdownKeepsEgl DEF Terminate
<1>7. QED
  BY <1>1, <1>2, <1>3, <1>4, <1>5, <1>6 DEF EglNext

-----------------------------------------------------------------------------
(* The identity. *)

\* What the game was told is what the file has, and nothing from the loading that
\* finds none to the move.
IdInv == /\ idGiven \subseteq {idFile} \ {0}
         /\ idStep \in {"create", "stored"} => idGiven = {}
         /\ idStep = "moved" => idBytes = idFile

LEMMA IdInitially == IdInit => IdInv
  BY DEF IdInit, IdInv

LEMMA IdStep == IdInv /\ IdNext => IdInv'
<1> SUFFICES ASSUME IdInv, IdNext PROVE IdInv'
  OBVIOUS
<1>1. CASE AskId \/ CreateIdFails
  BY <1>1 DEF AskId, CreateIdFails, IdInv
<1>2. CASE LoadId
  BY <1>2 DEF LoadId, IdInv
<1>3. CASE StoreId
  BY <1>3 DEF StoreId, IdInv
<1>4. CASE MoveId
  BY <1>4 DEF MoveId, IdInv
<1>5. CASE GiveId
  BY <1>5 DEF GiveId, IdInv
<1>6. QED
  BY <1>1, <1>2, <1>3, <1>4, <1>5 DEF IdNext

LEMMA IdCrashes == IdInv /\ (IdProcessEnds \/ IdReachesCard \/ IdPowerFails) => IdInv'
  BY DEF IdInv, IdProcessEnds, IdReachesCard, IdPowerFails

LEMMA UntouchedId == IdInv /\ UNCHANGED idVars => IdInv'
  BY DEF IdInv, idVars

-----------------------------------------------------------------------------
(* The run. *)

Cold == {"off", "started", "loaded", "down", "exited"}

\* What may be held at each stage of main.
StageInv == /\ stage \in Cold => ~library /\ ~window /\ alive = {}
            /\ stage \notin {"game", "returned", "unmapped"} =>
                  tracked = {} /\ heaps = {} /\ manager = "host"
            /\ mapped => stage \in {"mapped", "ready", "game", "returned"}
            /\ image => stage \notin {"off", "started", "exited"}

HostInv == EglInv /\ IdInv /\ StageInv

LEMMA HostInitially == Init => HostInv
<1> SUFFICES ASSUME Init PROVE HostInv
  OBVIOUS
<1>1. EglInv /\ IdInv
  BY EglInitially, IdInitially DEF Init
<1>2. StageInv
  BY DEF Init, StageInv, EglInit, StoreInit
<1>3. QED
  BY <1>1, <1>2 DEF HostInv

\* A stage of main that starts or ends the graphics, or leaves them alone.
LEMMA MainStep ==
    ASSUME HostInv,
           \/ Launch \/ LoadImage \/ StartHost \/ MapImage \/ InstallPatches \/ EnterGame
           \/ GameReturns \/ UnmapImage \/ HostShutdown \/ FreeImage
    PROVE  HostInv'
<1> USE DEF HostInv
<1>1. CASE Launch \/ MapImage \/ InstallPatches \/ EnterGame \/ GameReturns \/ UnmapImage
  <2>1. UNCHANGED eglVars /\ UNCHANGED idVars /\ UNCHANGED <<tracked, heaps, manager>>
    BY <1>1 DEF Launch, MapImage, InstallPatches, EnterGame, GameReturns, UnmapImage,
                Elsewhere, storeVars
  <2>2. EglInv' /\ IdInv'
    BY <2>1, UntouchedEgl, UntouchedId DEF eglVars
  <2>3. StageInv'
    BY <1>1, <2>1 DEF StageInv, Cold, eglVars, glVars, Launch, MapImage, InstallPatches,
                      EnterGame, GameReturns, UnmapImage
  <2>4. QED
    BY <2>2, <2>3
<1>2. CASE LoadImage \/ FreeImage
  <2>1. UNCHANGED eglVars /\ UNCHANGED idVars /\ UNCHANGED <<tracked, heaps, manager>>
    BY <1>2 DEF LoadImage, FreeImage, Elsewhere, storeVars
  <2>2. EglInv' /\ IdInv'
    BY <2>1, UntouchedEgl, UntouchedId DEF eglVars
  <2>3. StageInv'
    BY <1>2, <2>1 DEF StageInv, Cold, eglVars, glVars, LoadImage, FreeImage
  <2>4. QED
    BY <2>2, <2>3
<1>3. CASE StartHost
  <2>1. UNCHANGED idVars /\ UNCHANGED <<tracked, heaps, manager, mapped>>
    BY <1>3 DEF StartHost, Elsewhere, storeVars
  <2>2. IdInv'
    BY <2>1, UntouchedId
  <2>3. CASE stage' = "up" /\ LoadSdl /\ UNCHANGED image
    BY <1>3, <2>1, <2>2, <2>3, UntouchedEgl DEF LoadSdl, StageInv, Cold, StartHost
  <2>4. CASE stage' = "exited" /\ image' = FALSE /\ EglShutdown
    <3>1. EglInv' /\ alive' = {}
      BY <2>4, ShutdownKeepsEgl
    <3>2. StageInv'
      BY <1>3, <2>1, <2>4, <3>1 DEF StageInv, Cold, StartHost, EglShutdown
    <3>3. QED
      BY <2>2, <3>1, <3>2
  <2>5. QED
    BY <1>3, <2>3, <2>4 DEF StartHost
<1>4. CASE HostShutdown
  <2>1. EglInv' /\ alive' = {} /\ IdInv'
    BY <1>4, ShutdownKeepsEgl, UntouchedId DEF HostShutdown
  <2>2. StageInv'
    BY <1>4, <2>1 DEF StageInv, Cold, HostShutdown, EglShutdown, CloseMemoryFiles
  <2>3. QED
    BY <2>1, <2>2
<1>5. QED
  BY <1>1, <1>2, <1>3, <1>4

\* A call of the game disturbs the part it is about.
LEMMA GameStep ==
    ASSUME HostInv,
           \/ \E h \in Heaps : HeapCreate(h) \/ HeapDestroy(h)
           \/ SetUserMemMgr \/ GameGraphics \/ GameFiles \/ GameIdentity
    PROVE  HostInv'
<1> USE DEF HostInv
<1>1. stage = "game" /\ UNCHANGED <<stage, image, mapped>>
  BY DEF InGame, HeapCreate, HeapDestroy, SetUserMemMgr, GameGraphics, GameFiles, GameIdentity,
         runVars
<1>2. StageInv'
  BY <1>1 DEF StageInv, Cold
<1>3. CASE GameGraphics
  BY <1>2, <1>3, EglStep, UntouchedId DEF GameGraphics
<1>4. CASE GameIdentity
  BY <1>2, <1>4, IdStep, UntouchedEgl DEF GameIdentity, eglVars
<1>5. CASE (\E h \in Heaps : HeapCreate(h) \/ HeapDestroy(h)) \/ SetUserMemMgr \/ GameFiles
  <2>1. UNCHANGED eglVars /\ UNCHANGED idVars
    BY <1>5 DEF HeapCreate, HeapDestroy, SetUserMemMgr, GameFiles
  <2>2. QED
    BY <1>2, <2>1, UntouchedEgl, UntouchedId DEF eglVars
<1>6. QED
  BY <1>3, <1>4, <1>5

LEMMA OutsideStep == ASSUME HostInv, Killed \/ PowerFails \/ DirectoryFlushed PROVE HostInv'
<1> USE DEF HostInv
<1>1. IdInv'
  BY IdCrashes DEF Killed, PowerFails, DirectoryFlushed
<1>2. CASE Killed \/ PowerFails
  <2>1. ProcessGone
    BY <1>2 DEF Killed, PowerFails
  <2>2. EglInv' /\ alive' = {}
    BY <2>1, ShutdownKeepsEgl DEF ProcessGone
  <2>3. StageInv'
    BY <2>1, <2>2 DEF ProcessGone, StageInv, Cold, EglShutdown, StoreProcessEnds
  <2>4. QED
    BY <1>1, <2>2, <2>3
<1>3. CASE DirectoryFlushed
  <2>1. EglInv'
    BY <1>3, UntouchedEgl DEF DirectoryFlushed, eglVars
  <2>2. StageInv'
    BY <1>3 DEF DirectoryFlushed, StageInv, runVars, eglVars, glVars, storeVars
  <2>3. QED
    BY <1>1, <2>1, <2>2
<1>4. QED
  BY <1>2, <1>3

LEMMA HostStep == HostInv /\ [Next]_vars => HostInv'
<1> SUFFICES ASSUME HostInv, [Next]_vars PROVE HostInv'
  OBVIOUS
<1>1. CASE Next
  BY <1>1, MainStep, GameStep, OutsideStep DEF Next
<1>2. CASE UNCHANGED vars
  <2>1. EglInv' /\ IdInv'
    BY <1>2, UntouchedEgl, UntouchedId DEF HostInv, vars, eglVars
  <2>2. StageInv'
    BY <1>2 DEF HostInv, StageInv, vars, runVars, eglVars, glVars, storeVars
  <2>3. QED
    BY <2>1, <2>2 DEF HostInv
<1>3. QED
  BY <1>1, <1>2

\* Context, identity and what main holds, at each stage of main and of s3e_host_start.
THEOREM HostAlways == Spec => []HostInv
  BY HostInitially, HostStep, PTL DEF Spec

\* SDL never has a context the code does not know of, in any order of the game's calls
\* and at any failure or end of the run (EGL's create, bind, destroy and terminate).
THEOREM OneContextAlways == Spec => []OneContext
<1>1. HostInv => OneContext
  BY DEF HostInv, EglInv
<1>2. QED
  BY <1>1, HostAlways, PTL

\* A context the game holds is the one SDL has and is valid (s3eEglCreateContext and
\* s3eEglDestroyContext).
THEOREM HandedOutLivesAlways == Spec => []HandedOutLives
<1>1. HostInv => HandedOutLives
  BY DEF HostInv, EglInv, HandedOutLives
<1>2. QED
  BY <1>1, HostAlways, PTL

\* One identity, whatever step s3e_device_id_get is stopped at: what was told is what
\* the file holds.
THEOREM IdKeptAlways == Spec => []IdKept
<1>1. HostInv => IdKept
  <2> SUFFICES ASSUME HostInv PROVE Cardinality(idGiven) <= 1
    BY DEF IdKept
  <2>1. idGiven \subseteq {idFile}
    BY DEF HostInv, IdInv
  <2>2. CASE idGiven = {}
    BY <2>2, FS_EmptySet
  <2>3. CASE idGiven = {idFile}
    BY <2>3, FS_Singleton
  <2>4. QED
    BY <2>1, <2>2, <2>3
<1>2. QED
  BY <1>1, HostAlways, PTL

\* main ends with nothing held, wherever it failed (main.c's way out).
THEOREM LeavesNothingAlways == Spec => []LeavesNothing
<1>1. HostInv => LeavesNothing
  BY DEF HostInv, StageInv, Cold, LeavesNothing
<1>2. QED
  BY <1>1, HostAlways, PTL
-----------------------------------------------------------------------------
(* The files. *)

\* A set of numbers that is not empty has a least one, and Min returns it.
LEMMA MinIsIn ==
    ASSUME NEW S \in SUBSET Nat, S # {}
    PROVE  Min(S) \in S
<1> DEFINE Below == OpToRel(<, Nat)
<1>1. \A x, y \in Nat : <<y, x>> \in Below <=> y < x
  BY DEF OpToRel
<1>2. IsWellFoundedOn(Below, Nat)
  BY NatLessThanWellFounded
<1> HIDE DEF Below
<1>3. PICK x \in S : \A y \in S : ~(<<y, x>> \in Below)
  BY <1>2, WFMin
<1>4. \A y \in S : x =< y
  <2> SUFFICES ASSUME NEW y \in S PROVE ~(y < x)
    OBVIOUS
  <2>1. x \in Nat /\ y \in Nat
    OBVIOUS
  <2>2. QED
    BY <1>1, <1>3, <2>1, Zenon
<1>5. QED
  BY <1>4 DEF Min

LEMMA NoPlaceIsNone == Places \cap {"none", "closed", "user", "memory"} = {}
<1>1. \A i \in DOMAIN Here : Here[i] \in {"root", "assets", "gles1", "sw"}
  <2>1. DOMAIN Here = 1..4
    BY DEF Here
  <2>2. QED
    BY <2>1 DEF Here
<1>2. \A i \in DOMAIN Flat : Flat[i] \in {"flat_gles1", "flat_sw", "flat_assets"}
  <2>1. DOMAIN Flat = 1..3
    BY DEF Flat
  <2>2. QED
    BY <2>1 DEF Flat
<1>3. \A i \in DOMAIN Leaf : Leaf[i] \in {"leaf_gles1", "leaf_sw", "leaf_assets"}
  <2>1. DOMAIN Leaf = 1..3
    BY DEF Leaf
  <2>2. QED
    BY <2>1 DEF Leaf
<1>4. QED
  BY <1>1, <1>2, <1>3 DEF Places, ToSet

\* A name that is found is found at a place that has it.
LEMMA FirstPlaceHasIt ==
    ASSUME NEW n, Resolved(n)
    PROVE  FirstPlace(n) \in disk[n]
<1> DEFINE Known == {"root", "assets", "gles1", "sw", "flat_gles1", "flat_sw", "flat_assets",
                     "leaf_gles1", "leaf_sw", "leaf_assets"}
<1>1. Candidates(n) \in Seq(Known)
  <2>1. Here \in Seq(Known)
    BY DEF Here
  <2>2. Flat \in Seq(Known)
    BY DEF Flat
  <2>3. Leaf \in Seq(Known)
    BY DEF Leaf
  <2> HIDE DEF Known
  <2>4. Here \o (IF n \in Grouped THEN Flat ELSE <<>>) \in Seq(Known)
    BY <2>1, <2>2, ConcatProperties, EmptySeq
  <2>5. QED
    BY <2>3, <2>4, ConcatProperties, EmptySeq DEF Candidates
<1>2. FoundAt(n) \in SUBSET Nat
  BY <1>1 DEF FoundAt
<1>3. Min(FoundAt(n)) \in FoundAt(n)
  BY <1>2, MinIsIn DEF Resolved
<1>4. QED
  BY <1>3 DEF FirstPlace, FoundAt

\* What a file opened to be read reads is a place, the archive, the player's copy or none.
LEMMA ReadsFromIs ==
    ASSUME StoreTypeOK, NEW n \in Names, NEW entries
    PROVE  ReadsFrom(n, entries) \in Places \cup {"user", "memory", "none"}
<1>1. disk[n] \subseteq Places
  BY DEF StoreTypeOK
<1>2. InTheEnd(n, entries) \in Places \cup {"user", "memory", "none"}
  BY <1>1 DEF InTheEnd
<1>3. QED
  BY <1>1, <1>2, FirstPlaceHasIt DEF ReadsFrom

LEMMA StoreInitially ==
    ASSUME NEW disks, disks \subseteq [Names -> SUBSET Places],
           NEW archives, archives \subseteq SUBSET Names, StoreInit(disks, archives)
    PROVE  StoreTypeOK
  BY DEF StoreInit, StoreTypeOK, Copies

\* The operators an opening is made of.
LEMMA ConsultingKeeps ==
    ASSUME StoreTypeOK, NEW needed, NEW entries, Consulting(needed, entries),
           UNCHANGED archive
    PROVE  index' \subseteq archive' /\ indexed' \in BOOLEAN
  BY DEF Consulting, StoreTypeOK

LEMMA OpenedKeeps ==
    ASSUME StoreTypeOK, NEW from \in Places \cup {"user", "memory", "none"}, Opened(from)
    PROVE  /\ open' \in [Files -> Places \cup {"closed", "user", "memory"}]
           /\ tracked' \subseteq Files
<1>1. CASE from = "none"
  BY <1>1 DEF Opened, StoreTypeOK
<1>2. CASE from # "none"
  <2>1. PICK f \in Files :
          /\ open' = [open EXCEPT ![f] = from]
          /\ tracked' = IF from = "memory" THEN tracked \cup {f} ELSE tracked
    BY <1>2 DEF Opened
  <2>2. QED
    BY <1>2, <2>1 DEF StoreTypeOK
<1>3. QED
  BY <1>1, <1>2

\* A file may become the player's own writing, and then it stays.
Kept == \A n \in Names : user[n] = "own" => user'[n] = "own"

LEMMA StoreStep == ASSUME StoreTypeOK, StoreNext PROVE StoreTypeOK' /\ Kept
<1>1. ASSUME NEW n \in Names, CheckExists(n) PROVE StoreTypeOK' /\ Kept
  <2>1. PICK entries \in {index, archive, {}} :
           Consulting(NeedsIndex(n) /\ n \notin UserNamed, entries)
    BY <1>1 DEF CheckExists
  <2>2. index' \subseteq archive' /\ indexed' \in BOOLEAN
    BY <1>1, <2>1, ConsultingKeeps DEF CheckExists
  <2>3. QED
    BY <1>1, <2>2 DEF CheckExists, StoreTypeOK, Kept
<1>2. ASSUME NEW n \in Names, OpenToRead(n) PROVE StoreTypeOK' /\ Kept
  <2>1. PICK entries \in {index, archive, {}} :
           /\ Consulting(NeedsIndex(n), entries)
           /\ \E from \in {ReadsFrom(n, entries), ReadsFrom(n, {}), "none"} : Opened(from)
    BY <1>2 DEF OpenToRead
  <2>2. PICK from \in {ReadsFrom(n, entries), ReadsFrom(n, {}), "none"} : Opened(from)
    BY <2>1
  <2>3. from \in Places \cup {"user", "memory", "none"}
    BY <2>2, ReadsFromIs
  <2>4. /\ open' \in [Files -> Places \cup {"closed", "user", "memory"}]
        /\ tracked' \subseteq Files
    BY <2>2, <2>3, OpenedKeeps
  <2>5. index' \subseteq archive' /\ indexed' \in BOOLEAN
    BY <1>2, <2>1, ConsultingKeeps DEF OpenToRead
  <2>6. QED
    BY <1>2, <2>4, <2>5 DEF OpenToRead, StoreTypeOK, Kept
<1>3. ASSUME NEW n \in Names, OpenUser(n) PROVE StoreTypeOK' /\ Kept
  <2>1. PICK copy \in Seeded(n), entries \in {index, archive, {}} :
           /\ user' = [user EXCEPT ![n] = copy]
           /\ Consulting(copy = "none" /\ "assets" \notin disk[n], entries)
           /\ Opened(IF copy = "none" THEN InTheEnd(n, entries) ELSE "user")
    BY <1>3 DEF OpenUser
  <2>2. copy \in Copies /\ (user[n] = "own" => copy = "own")
    BY DEF Seeded, StoreTypeOK, Copies
  <2>3. user' \in [Names -> Copies] /\ Kept
    BY <2>1, <2>2 DEF StoreTypeOK, Kept
  <2>4. InTheEnd(n, entries) \in Places \cup {"user", "memory", "none"}
    BY DEF InTheEnd, StoreTypeOK
  <2>5. /\ open' \in [Files -> Places \cup {"closed", "user", "memory"}]
        /\ tracked' \subseteq Files
    <3>1. CASE copy = "none"
      BY <2>1, <2>4, <3>1, OpenedKeeps
    <3>2. CASE copy # "none"
      BY <2>1, <3>2, OpenedKeeps
    <3>3. QED
      BY <3>1, <3>2
  <2>6. index' \subseteq archive' /\ indexed' \in BOOLEAN
    BY <1>3, <2>1, ConsultingKeeps DEF OpenUser
  <2>7. QED
    BY <1>3, <2>3, <2>5, <2>6 DEF OpenUser, StoreTypeOK
<1>4. ASSUME NEW n \in Names, OpenToWrite(n) PROVE StoreTypeOK' /\ Kept
  <2>1. /\ open' \in [Files -> Places \cup {"closed", "user", "memory"}]
        /\ tracked' \subseteq Files
    BY <1>4, OpenedKeeps DEF OpenToWrite
  <2>2. user' \in [Names -> Copies] /\ Kept
    BY <1>4 DEF OpenToWrite, StoreTypeOK, Copies, Kept
  <2>3. QED
    BY <1>4, <2>1, <2>2 DEF OpenToWrite, StoreTypeOK
<1>5. ASSUME NEW n \in Names, OpenInPlace(n) PROVE StoreTypeOK' /\ Kept
  <2>1. UNCHANGED <<disk, archive, index, indexed>>
    BY <1>5 DEF OpenInPlace
  <2>2. CASE user' = [user EXCEPT ![n] = "own"] /\ Opened("user")
    <3>1. user' \in [Names -> Copies] /\ Kept
      BY <2>2 DEF StoreTypeOK, Copies, Kept
    <3>2. QED
      BY <2>1, <2>2, <3>1, OpenedKeeps DEF StoreTypeOK
  <2>3. CASE UNCHANGED user /\ Opened(IF "assets" \in disk[n] THEN "assets" ELSE "none")
    <3>1. (IF "assets" \in disk[n] THEN "assets" ELSE "none") \in Places \cup {"user", "memory", "none"}
      BY DEF StoreTypeOK
    <3>2. QED
      BY <2>1, <2>3, <3>1, OpenedKeeps DEF StoreTypeOK, Kept
  <2>4. QED
    BY <1>5, <2>2, <2>3 DEF OpenInPlace
<1>6. ASSUME NEW n \in Names, Delete(n) PROVE StoreTypeOK' /\ Kept
  BY <1>6 DEF Delete, StoreTypeOK, Kept
<1>7. ASSUME NEW n \in Names, NEW to \in Names, Rename(n, to) PROVE StoreTypeOK' /\ Kept
  <2>1. "root" \in Places
    BY DEF Rename, StoreTypeOK, Places, ToSet, Here
  <2>2. disk' \in [Names -> SUBSET Places]
    BY <1>7, <2>1 DEF Rename, StoreTypeOK
  <2>3. QED
    BY <1>7, <2>2 DEF Rename, StoreTypeOK, Kept
<1>8. ASSUME NEW f \in Files, Close(f) PROVE StoreTypeOK' /\ Kept
  BY <1>8 DEF Close, StoreTypeOK, Kept
<1>9. QED
  BY <1>1, <1>2, <1>3, <1>4, <1>5, <1>6, <1>7, <1>8 DEF StoreNext

\* The rest of a run closes files and forgets the index, and writes nothing.
LEMMA StoreEnds ==
    ASSUME StoreTypeOK,
           \/ UNCHANGED storeVars
           \/ StoreProcessEnds /\ UNCHANGED user
           \/ CloseMemoryFiles /\ UNCHANGED <<disk, archive, index, indexed, user>>
    PROVE  StoreTypeOK' /\ Kept
<1>1. CASE UNCHANGED storeVars
  BY <1>1 DEF storeVars, StoreTypeOK, Kept
<1>2. CASE StoreProcessEnds /\ UNCHANGED user
  BY <1>2 DEF StoreProcessEnds, StoreTypeOK, Kept
<1>3. CASE CloseMemoryFiles /\ UNCHANGED <<disk, archive, index, indexed, user>>
  <2>1. open' \in [Files -> Places \cup {"closed", "user", "memory"}] /\ tracked' = {}
    BY <1>3 DEF CloseMemoryFiles, StoreTypeOK
  <2>2. QED
    BY <1>3, <2>1 DEF StoreTypeOK, Kept
<1>4. QED
  BY <1>1, <1>2, <1>3

LEMMA StoreAtEachStep == ASSUME StoreTypeOK, [Next]_vars PROVE StoreTypeOK' /\ (PowerFails \/ Kept)
<1>1. CASE GameFiles
  BY <1>1, StoreStep DEF GameFiles
<1>2. CASE HostShutdown
  BY <1>2, StoreEnds DEF HostShutdown
<1>3. CASE Killed
  BY <1>3, StoreEnds DEF Killed, ProcessGone
<1>4. CASE PowerFails
  <2>1. StoreProcessEnds /\ user' \in [Names -> Copies]
    BY <1>4 DEF PowerFails, ProcessGone, CopiesLeft
  <2>2. QED
    BY <1>4, <2>1 DEF StoreProcessEnds, StoreTypeOK
<1>5. CASE \/ Launch \/ LoadImage \/ StartHost \/ MapImage \/ InstallPatches \/ EnterGame
           \/ GameReturns \/ UnmapImage \/ FreeImage
  <2>1. UNCHANGED storeVars
    BY <1>5 DEF Elsewhere, Launch, LoadImage, StartHost, MapImage, InstallPatches, EnterGame,
                GameReturns, UnmapImage, FreeImage
  <2>2. QED
    BY <2>1, StoreEnds
<1>6. CASE \/ \E h \in Heaps : HeapCreate(h) \/ HeapDestroy(h)
           \/ SetUserMemMgr \/ GameGraphics \/ GameIdentity \/ DirectoryFlushed
           \/ UNCHANGED vars
  <2>1. UNCHANGED storeVars
    BY <1>6 DEF HeapCreate, HeapDestroy, SetUserMemMgr, GameGraphics, GameIdentity,
                DirectoryFlushed, vars
  <2>2. QED
    BY <2>1, StoreEnds
<1>7. QED
  BY <1>1, <1>2, <1>3, <1>4, <1>5, <1>6 DEF Next

\* The root holds places and the archive names, and so for what is made of them.
THEOREM StoreTypeCorrect == Spec => []StoreTypeOK
<1>1. Init => StoreTypeOK
  BY StoreConstants, StoreInitially DEF Init
<1>2. StoreTypeOK /\ [Next]_vars => StoreTypeOK'
  BY StoreAtEachStep
<1>3. QED
  BY <1>1, <1>2, PTL DEF Spec

\* Whatever is below the root, in the archive and in the player's directory, a name that
\* exists opens (s3eFileCheckExists and s3eFileOpen look in the same places).
THEOREM FoundOpensAlways == Spec => []FoundOpens
<1>1. StoreTypeOK => FoundOpens
  <2> SUFFICES ASSUME StoreTypeOK, NEW entries, NEW n \in Names, Exists(n, entries)
               PROVE  ReadsFrom(n, entries) # "none"
    BY DEF FoundOpens
  <2>1. n \in entries => InTheEnd(n, entries) # "none"
    BY DEF InTheEnd
  <2>2. Resolved(n) => FirstPlace(n) # "none"
    BY FirstPlaceHasIt, NoPlaceIsNone DEF StoreTypeOK
  <2>3. QED
    BY <2>1, <2>2 DEF Exists, ReadsFrom
<1>2. QED
  BY <1>1, StoreTypeCorrect, PTL

\* What the game has written stays the player's file, whatever it opens, deletes and
\* renames, and wherever the process ends, until the power fails (s3eFileOpen's copying
\* of the game's own).
THEOREM WritingsKeptAlways == Spec => WritingsKept
<1>1. StoreTypeOK /\ [Next]_vars => [PowerFails \/ Kept]_storeVars
  BY StoreAtEachStep
<1>2. QED
  BY <1>1, StoreTypeCorrect, PTL DEF Spec, WritingsKept, Kept

-----------------------------------------------------------------------------
(* The pump. *)

\* The tasks still to do, and that the last of them, and it alone, does this.
Due == ToSet(work)
Ends(s, do) == s # <<>> /\ \A i \in DOMAIN s : s[i].do = do <=> i = Len(s)
NextToLast(s, do) == \A i \in DOMAIN s : s[i].do = do => i + 1 = Len(s)
Only(kinds) == \A t \in Due : t.do \in kinds

\* What is held in the wrong mode is still to be released.
PointerGoes == pointer => Task("releasePointer", "none") \in Due
PadsGo == \A p \in pad : Task("releasePad", p) \in Due
KeysGo == \A k \in Key : "down" \in live[k] => Task("releaseKey", k) \in Due

\* Until it is sampled the controller holds what it did; a controller that went is closed
\* when nothing is held any more.
ToScan == /\ Ends(work, "scan") /\ NextToLast(work, "close")
          /\ Only({"releasePointer", "releasePad", "releaseKey", "resetTriggers", "close", "scan"})
          /\ NothingAmiss
          /\ Task("close", "none") \in Due => controller /\ PointerGoes /\ PadsGo /\ KeysGo

ToPoint == /\ Ends(work, "pressA")
           /\ Only({"releasePad", "releaseKey", "resetTriggers", "movePointer", "pressA"})
           /\ controller /\ cursor
           /\ PadsGo /\ KeysGo

ToPlay == /\ Only({"releasePointer", "movePad", "setA", "setKey"})
          /\ controller /\ ~cursor
          /\ PointerGoes
          /\ \A p \in pad : p \in sample.sticks \/ Task("movePad", p) \in Due
          /\ \A k \in Key : "down" \in live[k] => HeldByController(k) \/ Task("setKey", k) \in Due

PumpInv == /\ cursor /\ pointer => prevA
           /\ IF work = <<>> THEN NothingAmiss ELSE ToScan \/ ToPoint \/ ToPlay

\* The game knows of every change.
ToldInv == /\ told.pads = pad /\ told.pointer = pointer
           /\ \A k \in Key \ cleared : k \in told.keys <=> "down" \in live[k]

\* How the pump's work is put together, and taken up.
LEMMA TaskOf == \A do, what : Task(do, what).do = do /\ Task(do, what).what = what
  BY DEF Task

LEMMA EachTask ==
    ASSUME NEW S, NEW whats \in Seq(S), NEW do, [do : {do}, what : S] \subseteq Tasks
    PROVE  /\ Each(do, whats) \in Seq(Tasks)
           /\ ToSet(Each(do, whats)) = {Task(do, w) : w \in ToSet(whats)}
<1> DEFINE E == Each(do, whats)
<1>1. Len(whats) \in Nat /\ DOMAIN whats = 1 .. Len(whats) /\ \A i \in DOMAIN whats : whats[i] \in S
  OBVIOUS
<1>2. DOMAIN E = 1 .. Len(whats) /\ \A i \in DOMAIN whats : E[i] = Task(do, whats[i])
  BY <1>1 DEF Each
<1>3. \A i \in DOMAIN whats : E[i] \in Tasks
  BY <1>1, <1>2 DEF Task
<1>4. E \in Seq(Tasks)
  <2>1. E = [i \in 1 .. Len(whats) |-> E[i]]
    BY <1>1 DEF Each
  <2> HIDE DEF E
  <2> QED
    BY <1>1, <1>2, <1>3, <2>1
<1>5. ToSet(E) = {Task(do, w) : w \in ToSet(whats)}
  BY <1>1, <1>2 DEF ToSet
<1> QED
  BY <1>4, <1>5

LEMMA Single ==
    ASSUME NEW t
    PROVE  /\ \A S : t \in S => <<t>> \in Seq(S)
           /\ ToSet(<<t>>) = {t}
           /\ Len(<<t>>) = 1 /\ DOMAIN <<t>> = 1 .. 1 /\ <<t>>[1] = t
           /\ \A do : t.do = do => Ends(<<t>>, do)
<1>1. /\ Len(<<t>>) = 1 /\ DOMAIN <<t>> = 1 .. 1 /\ <<t>>[1] = t /\ <<t>> # <<>>
      /\ \A S : t \in S => <<t>> \in Seq(S)
  OBVIOUS
<1>2. \A i : i \in 1 .. 1 <=> i = 1
  OBVIOUS
<1>3. ToSet(<<t>>) = {t}
  BY <1>1, <1>2 DEF ToSet
<1>4. \A do : t.do = do => Ends(<<t>>, do)
  BY <1>1, <1>2 DEF Ends
<1> QED
  BY <1>1, <1>3, <1>4

LEMMA OneTask ==
    ASSUME NEW do \in {"releasePointer", "resetTriggers", "close", "scan", "movePointer",
                       "pressA", "setA"}
    PROVE  /\ Once(do) \in Seq(Tasks)
           /\ ToSet(Once(do)) = {Task(do, "none")}
           /\ Ends(Once(do), do)
<1>1. Task(do, "none") \in Tasks /\ Task(do, "none").do = do
  BY DEF Task, Tasks
<1> QED
  BY <1>1, Single DEF Once

LEMMA Joined ==
    ASSUME NEW a \in Seq(Tasks), NEW b \in Seq(Tasks)
    PROVE  /\ a \o b \in Seq(Tasks)
           /\ ToSet(a \o b) = ToSet(a) \cup ToSet(b)
           /\ Len(a \o b) = Len(a) + Len(b)
<1>1. ToSet(a \o b) \subseteq ToSet(a) \cup ToSet(b)
  <2> SUFFICES ASSUME NEW i \in DOMAIN (a \o b) PROVE (a \o b)[i] \in ToSet(a) \cup ToSet(b)
    BY DEF ToSet
  <2>1. CASE i <= Len(a)
    BY <2>1 DEF ToSet
  <2>2. CASE i > Len(a)
    <3>1. (a \o b)[i] = b[i - Len(a)] /\ i - Len(a) \in DOMAIN b
      BY <2>2
    <3> QED
      BY <3>1 DEF ToSet
  <2> QED
    BY <2>1, <2>2
<1>2. ToSet(a) \subseteq ToSet(a \o b)
  <2> SUFFICES ASSUME NEW i \in DOMAIN a PROVE a[i] \in ToSet(a \o b)
    BY DEF ToSet
  <2>1. i \in DOMAIN (a \o b) /\ (a \o b)[i] = a[i]
    OBVIOUS
  <2> QED
    BY <2>1 DEF ToSet
<1>3. ToSet(b) \subseteq ToSet(a \o b)
  <2> SUFFICES ASSUME NEW i \in DOMAIN b PROVE b[i] \in ToSet(a \o b)
    BY DEF ToSet
  <2>1. i + Len(a) \in DOMAIN (a \o b) /\ (a \o b)[i + Len(a)] = b[i]
    OBVIOUS
  <2> QED
    BY <2>1 DEF ToSet
<1> QED
  BY <1>1, <1>2, <1>3

LEMMA EndsJoined ==
    ASSUME NEW a \in Seq(Tasks), NEW b \in Seq(Tasks), NEW do,
           \A t \in ToSet(a) : t.do # do, Ends(b, do)
    PROVE  Ends(a \o b, do)
<1>1. \A i \in DOMAIN a : a[i].do # do
  BY DEF ToSet
<1>2. Len(b) > 0 /\ Len(a \o b) = Len(a) + Len(b)
  BY DEF Ends
<1> SUFFICES ASSUME NEW i \in DOMAIN (a \o b)
             PROVE  (a \o b)[i].do = do <=> i = Len(a \o b)
  BY <1>2 DEF Ends
<1>3. CASE i <= Len(a)
  BY <1>1, <1>2, <1>3
<1>4. CASE i > Len(a)
  <2>1. (a \o b)[i] = b[i - Len(a)] /\ i - Len(a) \in DOMAIN b
    BY <1>4
  <2>2. b[i - Len(a)].do = do <=> i - Len(a) = Len(b)
    BY <2>1 DEF Ends
  <2> QED
    BY <2>1, <2>2, <1>2
<1> QED
  BY <1>3, <1>4

LEMMA TakenUp ==
    ASSUME work \in Seq(Tasks), work # <<>>, NEW t, t = Tail(work)
    PROVE  /\ t \in Seq(Tasks) /\ Head(work) \in Tasks
           /\ Due = {Head(work)} \cup ToSet(t)
           /\ \A do : Ends(work, do) => IF Head(work).do = do THEN t = <<>> ELSE Ends(t, do)
           /\ \A do : NextToLast(work, do) => /\ NextToLast(t, do)
                                              /\ Head(work).do = do => Len(t) = 1
<1>1. /\ Len(work) \in Nat \ {0} /\ DOMAIN work = 1 .. Len(work) /\ Head(work) = work[1]
      /\ t \in Seq(Tasks) /\ Len(t) = Len(work) - 1 /\ DOMAIN t = 1 .. Len(t)
      /\ \A i \in DOMAIN t : t[i] = work[i + 1] /\ i + 1 \in DOMAIN work
  OBVIOUS
<1>2. Head(work) \in Tasks
  OBVIOUS
<1>3. Due = {Head(work)} \cup ToSet(t)
  <2>1. \A i \in DOMAIN work : i = 1 \/ (i - 1 \in DOMAIN t /\ t[i - 1] = work[i])
    BY <1>1
  <2>2. 1 \in DOMAIN work
    BY <1>1
  <2>3. \A i \in DOMAIN work : work[i] \in {Head(work)} \cup ToSet(t)
    BY <1>1, <2>1 DEF ToSet
  <2>4. \A i \in DOMAIN t : t[i] \in Due
    BY <1>1 DEF Due, ToSet
  <2>5. Head(work) \in Due
    BY <1>1, <2>2 DEF Due, ToSet
  <2> QED
    BY <2>3, <2>4, <2>5 DEF Due, ToSet
<1>4. ASSUME NEW do, Ends(work, do)
      PROVE  IF Head(work).do = do THEN t = <<>> ELSE Ends(t, do)
  <2>1. Head(work).do = do <=> Len(work) = 1
    BY <1>1, <1>4 DEF Ends
  <2>2. CASE Len(work) = 1
    BY <2>1, <2>2, <1>1
  <2>3. CASE Len(work) # 1
    <3>1. t # <<>>
      BY <2>3, <1>1
    <3>2. ASSUME NEW i \in DOMAIN t
          PROVE  t[i].do = do <=> i = Len(t)
      BY <1>1, <1>4 DEF Ends
    <3> QED
      BY <2>1, <2>3, <3>1, <3>2 DEF Ends
  <2> QED
    BY <2>2, <2>3
<1>5. ASSUME NEW do, NextToLast(work, do)
      PROVE  NextToLast(t, do) /\ (Head(work).do = do => Len(t) = 1)
  BY <1>1, <1>5 DEF NextToLast
<1> QED
  BY <1>1, <1>2, <1>3, <1>4, <1>5

\* What the code has the pump do.
LEMMA Released ==
    /\ ReleaseAll \in Seq(Tasks)
    /\ ToSet(ReleaseAll) = {Task("releasePad", p) : p \in Stick}
                           \cup {Task("releaseKey", k) : k \in Key} \cup {Task("resetTriggers", "none")}
<1>1. ReleasePads \in Seq(Tasks) /\ ToSet(ReleasePads) = {Task("releasePad", p) : p \in Stick}
  <2>1. [do : {"releasePad"}, what : Stick] \subseteq Tasks
    BY DEF Tasks
  <2> QED
    BY <2>1, EachTask, InputConstants DEF ReleasePads, Stick
<1>2. /\ Each("releaseKey", Codes) \in Seq(Tasks)
      /\ ToSet(Each("releaseKey", Codes)) = {Task("releaseKey", k) : k \in Key}
  <2>1. [do : {"releaseKey"}, what : Key] \subseteq Tasks
    BY DEF Tasks
  <2> QED
    BY <2>1, EachTask, InputConstants
<1>3. Once("resetTriggers") \in Seq(Tasks) /\ ToSet(Once("resetTriggers")) = {Task("resetTriggers", "none")}
  BY OneTask
<1> DEFINE keys == Each("releaseKey", Codes)
           reset == Once("resetTriggers")
<1> HIDE DEF keys, reset
<1>4. ReleaseAll = (ReleasePads \o keys) \o reset
  BY <1>1, <1>2, <1>3 DEF ReleaseAll, keys, reset
<1>5. /\ ReleasePads \o keys \in Seq(Tasks)
      /\ ToSet(ReleasePads \o keys) = ToSet(ReleasePads) \cup ToSet(keys)
  BY <1>1, <1>2, Joined DEF keys
<1>6. /\ (ReleasePads \o keys) \o reset \in Seq(Tasks)
      /\ ToSet((ReleasePads \o keys) \o reset) = ToSet(ReleasePads \o keys) \cup ToSet(reset)
  BY <1>3, <1>5, Joined DEF reset
<1> QED
  BY <1>1, <1>2, <1>3, <1>4, <1>5, <1>6 DEF keys, reset

LEMMA ClosingTasks ==
    /\ Closing \in Seq(Tasks)
    /\ ToSet(Closing) = {Task("releasePointer", "none"), Task("close", "none")} \cup ToSet(ReleaseAll)
    /\ Ends(Closing, "close")
<1> DEFINE point == Once("releasePointer")
           close == Once("close")
<1>1. /\ point \in Seq(Tasks) /\ ToSet(point) = {Task("releasePointer", "none")}
      /\ close \in Seq(Tasks) /\ ToSet(close) = {Task("close", "none")} /\ Ends(close, "close")
  BY OneTask
<1> HIDE DEF point, close
<1>2. /\ point \o ReleaseAll \in Seq(Tasks)
      /\ ToSet(point \o ReleaseAll) = {Task("releasePointer", "none")} \cup ToSet(ReleaseAll)
  BY <1>1, Released, Joined
<1>3. Closing = (point \o ReleaseAll) \o close
  BY <1>1, Released DEF Closing, point, close
<1>4. \A t \in ToSet(point \o ReleaseAll) : t.do # "close"
  BY <1>2, Released, TaskOf
<1>5. Ends((point \o ReleaseAll) \o close, "close")
  BY <1>1, <1>2, <1>4, EndsJoined
<1>6. /\ (point \o ReleaseAll) \o close \in Seq(Tasks)
      /\ ToSet((point \o ReleaseAll) \o close) = ToSet(point \o ReleaseAll) \cup {Task("close", "none")}
  BY <1>1, <1>2, Joined
<1> QED
  BY <1>2, <1>3, <1>5, <1>6

\* The work of a pump, with a controller to close first or without.
LEMMA BegunTasks ==
    ASSUME NEW a \in {Closing, <<>>}
    PROVE  /\ a \o Once("scan") \in Seq(Tasks)
           /\ ToSet(a \o Once("scan")) = ToSet(a) \cup {Task("scan", "none")}
           /\ Ends(a \o Once("scan"), "scan")
           /\ NextToLast(a \o Once("scan"), "close")
<1> DEFINE b == Once("scan")
<1>1. /\ b \in Seq(Tasks) /\ ToSet(b) = {Task("scan", "none")} /\ Ends(b, "scan")
      /\ DOMAIN b = 1 .. 1 /\ Len(b) = 1 /\ b[1].do = "scan"
  <2>1. DOMAIN b = 1 .. 1 /\ Len(b) = 1 /\ b[1] = Task("scan", "none")
    BY Single DEF Once
  <2> QED
    BY <2>1, OneTask, TaskOf
<1> HIDE DEF b
<1>2. a \in Seq(Tasks) /\ \A t \in ToSet(a) : t.do # "scan"
  <2>1. CASE a = <<>>
    BY <2>1 DEF ToSet
  <2>2. CASE a = Closing
    BY <2>2, ClosingTasks, Released, TaskOf
  <2> QED
    BY <2>1, <2>2
<1>3. Ends(a \o b, "scan")
  BY <1>1, <1>2, EndsJoined
<1>4. ASSUME NEW i \in DOMAIN (a \o b), (a \o b)[i].do = "close"
      PROVE  i + 1 = Len(a \o b)
  <2>1. CASE a = <<>>
    <3>1. a \o b = b
      BY <1>1, <2>1
    <3>2. i = 1 /\ (a \o b)[i].do = "scan"
      BY <3>1, <1>1
    <3> QED
      BY <3>2, <1>4
  <2>2. CASE a = Closing
    <3>1. Len(a \o b) = Len(a) + 1
      <4>1. Len(a \o b) = Len(a) + Len(b)
        BY <1>1, <1>2, Joined
      <4> QED
        BY <4>1, <1>1
    <3>2. CASE i <= Len(a)
      <4>1. i \in DOMAIN a /\ (a \o b)[i] = a[i]
        BY <1>1, <1>2, <3>2
      <4> QED
        BY <4>1, <3>1, <1>4, <2>2, ClosingTasks DEF Ends
    <3>3. CASE i > Len(a)
      <4>1. i = Len(a) + 1 /\ (a \o b)[i] = b[1]
        BY <1>1, <1>2, <3>1, <3>3
      <4> QED
        BY <4>1, <1>1, <1>4
    <3> QED
      BY <3>2, <3>3, <1>1, <1>2
  <2> QED
    BY <2>1, <2>2
<1> QED
  BY <1>1, <1>2, <1>3, <1>4, Joined DEF NextToLast, b

LEMMA CursorTasks ==
    /\ ModeTasks(TRUE) \in Seq(Tasks)
    /\ ToSet(ModeTasks(TRUE)) = ToSet(ReleaseAll) \cup {Task("movePointer", "none"), Task("pressA", "none")}
    /\ Ends(ModeTasks(TRUE), "pressA")
<1> DEFINE move == Once("movePointer")
           press == Once("pressA")
<1>1. /\ move \in Seq(Tasks) /\ ToSet(move) = {Task("movePointer", "none")}
      /\ press \in Seq(Tasks) /\ ToSet(press) = {Task("pressA", "none")} /\ Ends(press, "pressA")
  BY OneTask
<1> HIDE DEF move, press
<1>2. ModeTasks(TRUE) = (ReleaseAll \o move) \o press
  BY <1>1, Released DEF ModeTasks, move, press
<1>3. /\ ReleaseAll \o move \in Seq(Tasks)
      /\ ToSet(ReleaseAll \o move) = ToSet(ReleaseAll) \cup {Task("movePointer", "none")}
  BY <1>1, Released, Joined
<1>4. \A t \in ToSet(ReleaseAll \o move) : t.do # "pressA"
  BY <1>3, Released, TaskOf
<1>5. Ends((ReleaseAll \o move) \o press, "pressA")
  BY <1>1, <1>3, <1>4, EndsJoined
<1>6. /\ (ReleaseAll \o move) \o press \in Seq(Tasks)
      /\ ToSet((ReleaseAll \o move) \o press) = ToSet(ReleaseAll \o move) \cup ToSet(press)
  BY <1>1, <1>3, Joined
<1> QED
  BY <1>1, <1>2, <1>3, <1>5, <1>6

LEMMA GameTasks ==
    /\ ModeTasks(FALSE) \in Seq(Tasks)
    /\ ToSet(ModeTasks(FALSE)) = {Task("releasePointer", "none"), Task("setA", "none")}
                                 \cup {Task("movePad", p) : p \in Stick}
                                 \cup {Task("setKey", k) : k \in Key}
<1> DEFINE point == Once("releasePointer")
           a == Once("setA")
           pads == Each("movePad", Sticks)
           keys == Each("setKey", Keys)
<1>1. /\ point \in Seq(Tasks) /\ ToSet(point) = {Task("releasePointer", "none")}
      /\ a \in Seq(Tasks) /\ ToSet(a) = {Task("setA", "none")}
  BY OneTask
<1>2. pads \in Seq(Tasks) /\ ToSet(pads) = {Task("movePad", p) : p \in Stick}
  <2>1. [do : {"movePad"}, what : Stick] \subseteq Tasks
    BY DEF Tasks
  <2> QED
    BY <2>1, EachTask, InputConstants DEF Stick
<1>3. keys \in Seq(Tasks) /\ ToSet(keys) = {Task("setKey", k) : k \in Key}
  <2>1. [do : {"setKey"}, what : Key] \subseteq Tasks
    BY DEF Tasks
  <2> QED
    BY <2>1, EachTask, InputConstants DEF Key
<1> HIDE DEF point, a, pads, keys
<1>4. ModeTasks(FALSE) = ((point \o pads) \o a) \o keys
  BY <1>1, <1>2, <1>3 DEF ModeTasks, point, a, pads, keys
<1>5. /\ point \o pads \in Seq(Tasks)
      /\ ToSet(point \o pads) = ToSet(point) \cup ToSet(pads)
  BY <1>1, <1>2, Joined
<1>6. /\ (point \o pads) \o a \in Seq(Tasks)
      /\ ToSet((point \o pads) \o a) = ToSet(point \o pads) \cup ToSet(a)
  BY <1>1, <1>5, Joined
<1>7. /\ ((point \o pads) \o a) \o keys \in Seq(Tasks)
      /\ ToSet(((point \o pads) \o a) \o keys) = ToSet((point \o pads) \o a) \cup ToSet(keys)
  BY <1>3, <1>6, Joined
<1> QED
  BY <1>1, <1>2, <1>3, <1>4, <1>5, <1>6, <1>7

\* What the pump takes up.
LEMMA TakenTask ==
    ASSUME work \in Seq(Tasks), NEW do, Doing(do)
    PROVE  /\ do \in {"releasePad", "movePad"} => Head(work) = Task(do, Head(work).what) /\ Head(work).what \in Stick
           /\ do \in {"releaseKey", "setKey"} => Head(work) = Task(do, Head(work).what) /\ Head(work).what \in Key
           /\ do \notin {"releasePad", "movePad", "releaseKey", "setKey"} => Head(work) = Task(do, "none")
           /\ Tail(work) \in Seq(Tasks)
<1>1. Head(work) \in Tasks /\ Tail(work) \in Seq(Tasks)
  BY TakenUp DEF Doing
<1> QED
  BY <1>1 DEF Tasks, Task, Doing

LEMMA KeySet ==
    ASSUME InputTypeOK, NEW k \in Key, NEW down \in BOOLEAN, SetKey(k, down)
    PROVE  /\ live' \in [Key -> SUBSET Edge] /\ published' = published /\ cleared' \subseteq Key
           /\ calling' \in BOOLEAN /\ told' \in [keys : SUBSET Key, pads : SUBSET Stick, pointer : BOOLEAN]
           /\ told'.pads = told.pads /\ told'.pointer = told.pointer
           /\ \A j \in Key : "down" \in live'[j] <=> IF j = k THEN down ELSE "down" \in live[j]
           /\ (\A j \in Key \ cleared : j \in told.keys <=> "down" \in live[j])
              => \A j \in Key \ cleared' : j \in told'.keys <=> "down" \in live'[j]
<1>1. /\ live \in [Key -> SUBSET Edge] /\ calling \in BOOLEAN /\ cleared \subseteq Key
      /\ told \in [keys : SUBSET Key, pads : SUBSET Stick, pointer : BOOLEAN]
  BY DEF InputTypeOK
<1>2. CASE ("down" \in live[k]) = down
  BY <1>1, <1>2 DEF SetKey, keyVars, Silently
<1>3. CASE ("down" \in live[k]) # down
  <2>1. /\ live' = [live EXCEPT ![k] = IF down THEN @ \cup {"down", "pressed"}
                                       ELSE (@ \ {"down"}) \cup {"released"}]
        /\ cleared' = cleared \ {k}
        /\ calling' = TRUE /\ told' = [told EXCEPT !.keys = Switched(@, k, down)]
        /\ published' = published
    BY <1>3 DEF SetKey, Tell
  <2>2. live' \in [Key -> SUBSET Edge]
    BY <1>1, <2>1 DEF Edge
  <2>3. \A j \in Key : "down" \in live'[j] <=> IF j = k THEN down ELSE "down" \in live[j]
    BY <1>1, <2>1
  <2>4. told'.keys = Switched(told.keys, k, down) /\ told'.pads = told.pads /\ told'.pointer = told.pointer
    BY <1>1, <2>1
  <2>5. told' \in [keys : SUBSET Key, pads : SUBSET Stick, pointer : BOOLEAN]
    BY <1>1, <2>1 DEF Switched
  <2> QED
    BY <1>1, <2>1, <2>2, <2>3, <2>4, <2>5 DEF Switched
<1> QED
  BY <1>2, <1>3

LEMMA PadSet ==
    ASSUME InputTypeOK, NEW p \in Stick, NEW on \in BOOLEAN, SetPad(p, on)
    PROVE  /\ pad' = Switched(pad, p, on) /\ pad' \subseteq Stick /\ calling' = TRUE
           /\ told' \in [keys : SUBSET Key, pads : SUBSET Stick, pointer : BOOLEAN]
           /\ told'.pads = Switched(told.pads, p, on)
           /\ told'.keys = told.keys /\ told'.pointer = told.pointer
<1>1. /\ told' = [told EXCEPT !.pads = Switched(@, p, on)] /\ calling' = TRUE
      /\ pad' = Switched(pad, p, on)
      /\ told \in [keys : SUBSET Key, pads : SUBSET Stick, pointer : BOOLEAN] /\ pad \subseteq Stick
  BY DEF SetPad, Tell, InputTypeOK
<1> QED
  BY <1>1 DEF Switched

LEMMA InputTypedStep ==
    ASSUME InputTypeOK, InputNext
    PROVE  InputTypeOK'
<1> USE DEF modeVars, keyVars
<1>1. ASSUME NEW forKeyboard \in BOOLEAN, Begin(forKeyboard)
      PROVE  InputTypeOK'
  <2>1. work' \in Seq(Tasks)
    BY <1>1, BegunTasks DEF Begin
  <2> QED
    BY <1>1, <2>1 DEF Begin, InputTypeOK
<1>2. CASE NestedKeyboardUpdate \/ Publish
  <2>1. live' \in [Key -> SUBSET Edge] /\ published' \in [Key -> SUBSET Edge]
    BY <1>2 DEF NestedKeyboardUpdate, Publish, Published, InputTypeOK
  <2> QED
    BY <1>2, <2>1 DEF NestedKeyboardUpdate, Publish, InputTypeOK
<1>3. CASE ClearState
  BY <1>3 DEF ClearState, InputTypeOK
<1>4. CASE CallbackReturn \/ Plug
  BY <1>4 DEF CallbackReturn, Plug, InputTypeOK
<1>5. CASE ReleasePointer
  <2>1. calling' \in BOOLEAN /\ told' \in [keys : SUBSET Key, pads : SUBSET Stick, pointer : BOOLEAN]
    BY <1>5 DEF ReleasePointer, Tell, Silently, InputTypeOK
  <2> QED
    BY <1>5, <2>1, TakenTask DEF ReleasePointer, Done, InputTypeOK
<1>6. CASE ReleasePad
  <2>1. /\ calling' \in BOOLEAN /\ told' \in [keys : SUBSET Key, pads : SUBSET Stick, pointer : BOOLEAN]
        /\ pad' \subseteq Stick
    <3>1. Head(work).what \in Stick
      BY <1>6, TakenTask DEF ReleasePad, InputTypeOK
    <3> QED
      BY <1>6, <3>1, PadSet DEF ReleasePad, Silently, InputTypeOK
  <2> QED
    BY <1>6, <2>1, TakenTask DEF ReleasePad, Done, InputTypeOK
<1>7. CASE ReleaseKey
  <2>1. Head(work).what \in Key
    BY <1>7, TakenTask DEF ReleaseKey, InputTypeOK
  <2> QED
    BY <1>7, <2>1, TakenTask, KeySet DEF ReleaseKey, Done, InputTypeOK
<1>8. CASE ResetTriggers \/ CloseController
  BY <1>8, TakenTask DEF ResetTriggers, CloseController, Done, Silently, InputTypeOK
<1>9. CASE Scan
  <2>1. CASE NotFound
    BY <1>9, <2>1, TakenTask DEF Scan, NotFound, Done, Silently, InputTypeOK
  <2>2. ASSUME NEW s \in Sample, Sampled(s)
        PROVE  InputTypeOK'
    <3>1. cursor' \in BOOLEAN /\ prevSelect' \in BOOLEAN /\ ModeTasks(cursor') \in Seq(Tasks)
      <4>1. cursor' \in BOOLEAN
        BY <2>2 DEF Sampled
      <4>2. prevSelect' \in BOOLEAN
        BY <2>2 DEF Sampled, Sample
      <4>3. ModeTasks(cursor') \in Seq(Tasks)
        <5>1. cursor' = TRUE \/ cursor' = FALSE
          BY <4>1
        <5> QED
          BY <5>1, CursorTasks, GameTasks
      <4> QED
        BY <4>1, <4>2, <4>3
    <3>2. work' \in Seq(Tasks)
      BY <2>2, <3>1, OneTask, Released, Joined DEF Sampled
    <3> QED
      BY <1>9, <2>2, <3>1, <3>2 DEF Scan, Sampled, Silently, InputTypeOK
  <2> QED
    BY <1>9, <2>1, <2>2 DEF Scan
<1>10. CASE MovePointer
  BY <1>10, TakenTask DEF MovePointer, Done, Moving, InputTypeOK
<1>14. CASE SetA
  <2>1. prevA' \in BOOLEAN
    BY <1>14 DEF SetA
  <2> QED
    BY <1>14, <2>1, TakenTask DEF SetA, Done, Silently, InputTypeOK
<1>11. CASE PressA
  <2>1. /\ calling' \in BOOLEAN /\ told' \in [keys : SUBSET Key, pads : SUBSET Stick, pointer : BOOLEAN]
        /\ prevA' \in BOOLEAN /\ pointer' \in BOOLEAN
    <3> DEFINE a == Action \in sample.buttons
    <3>1. a \in BOOLEAN /\ prevA' = a /\ pointer \in BOOLEAN
          /\ calling \in BOOLEAN /\ told \in [keys : SUBSET Key, pads : SUBSET Stick, pointer : BOOLEAN]
          /\ IF a = prevA THEN pointer' = pointer /\ calling' = calling /\ told' = told
             ELSE pointer' = a /\ calling' = TRUE /\ told' = [told EXCEPT !.pointer = a]
      BY <1>11 DEF PressA, Tell, Silently, InputTypeOK
    <3> HIDE DEF a
    <3> QED
      BY <3>1
  <2> QED
    BY <1>11, <2>1, TakenTask DEF PressA, Done, InputTypeOK
<1>12. CASE MovePad
  <2>1. /\ calling' \in BOOLEAN /\ told' \in [keys : SUBSET Key, pads : SUBSET Stick, pointer : BOOLEAN]
        /\ pad' \subseteq Stick
    <3> DEFINE p == Head(work).what
               pushed == p \in sample.sticks
    <3>1. p \in Stick /\ pushed \in BOOLEAN
      BY <1>12, TakenTask DEF MovePad, InputTypeOK
    <3>2. SetPad(p, pushed) \/ (UNCHANGED pad /\ UNCHANGED told /\ calling' \in BOOLEAN)
      BY <1>12 DEF MovePad, Moving, Silently, InputTypeOK
    <3> HIDE DEF p, pushed
    <3> QED
      BY <3>1, <3>2, PadSet DEF InputTypeOK
  <2> QED
    BY <1>12, <2>1, TakenTask DEF MovePad, Done, InputTypeOK
<1>13. CASE SetGameKey
  <2>1. Head(work).what \in Key
    BY <1>13, TakenTask DEF SetGameKey, InputTypeOK
  <2>2. triggerDown' \subseteq Triggers
    BY <1>13 DEF SetGameKey, Switched, InputTypeOK
  <2> QED
    BY <1>13, <2>1, <2>2, TakenTask, KeySet DEF SetGameKey, Done, InputTypeOK
<1> QED
  BY <1>1, <1>2, <1>3, <1>4, <1>5, <1>6, <1>7, <1>8, <1>9, <1>10, <1>11, <1>12, <1>13,
     <1>14 DEF InputNext, Pump

\* Every change is told when it is made, and nothing else is.
LEMMA ToldStep ==
    ASSUME InputTypeOK, ToldInv, InputNext
    PROVE  ToldInv'
<1> USE DEF modeVars, keyVars
<1>1. ASSUME UNCHANGED <<pad, pointer, told, cleared>>,
             \A k \in Key : "down" \in live'[k] <=> "down" \in live[k]
      PROVE  ToldInv'
  BY <1>1 DEF ToldInv
<1>2. CASE \/ \E forKeyboard \in BOOLEAN : Begin(forKeyboard)
           \/ CallbackReturn \/ Plug \/ ResetTriggers \/ CloseController \/ Scan \/ MovePointer \/ SetA
  <2>1. UNCHANGED <<pad, pointer, told, cleared, live>>
    BY <1>2 DEF Begin, CallbackReturn, Plug, ResetTriggers, CloseController, Scan, MovePointer,
                SetA, Moving, Silently
  <2> QED
    BY <1>1, <2>1
<1>3. CASE NestedKeyboardUpdate \/ Publish
  <2>1. live' = [k \in Key |-> live[k] \ Edges] /\ UNCHANGED <<pad, pointer, told, cleared>>
    BY <1>3 DEF NestedKeyboardUpdate, Publish, Published
  <2>2. \A k \in Key : "down" \in live'[k] <=> "down" \in live[k]
    BY <2>1 DEF Edges
  <2> QED
    BY <1>1, <2>1, <2>2
<1>4. CASE ClearState
  <2>1. /\ \A k \in Key : live'[k] = {} /\ ("down" \in live[k] => k \in cleared') /\ cleared \subseteq cleared'
        /\ UNCHANGED <<pad, pointer, told>>
    BY <1>4 DEF ClearState
  <2> QED
    BY <2>1 DEF ToldInv
<1>5. CASE ReleasePointer
  <2>1. /\ pointer' = FALSE /\ UNCHANGED <<pad, live, cleared>>
        /\ told \in [keys : SUBSET Key, pads : SUBSET Stick, pointer : BOOLEAN]
        /\ IF pointer THEN told' = [told EXCEPT !.pointer = FALSE] ELSE told' = told
    BY <1>5 DEF ReleasePointer, Tell, Silently, InputTypeOK
  <2>2. told'.pads = told.pads /\ told'.keys = told.keys /\ told'.pointer = FALSE
    BY <2>1 DEF ToldInv
  <2> QED
    BY <2>1, <2>2 DEF ToldInv
<1>6. CASE ReleasePad \/ MovePad
  <2> DEFINE p == Head(work).what
  <2>1. p \in Stick
    BY <1>6, TakenTask DEF ReleasePad, MovePad, InputTypeOK
  <2>2. /\ UNCHANGED <<pointer, live, cleared>>
        /\ (\E on \in BOOLEAN : SetPad(p, on)) \/ UNCHANGED <<pad, told>>
    <3>1. CASE ReleasePad
      BY <3>1 DEF ReleasePad, Silently
    <3>2. CASE MovePad
      <4> DEFINE pushed == p \in sample.sticks
      <4>1. pushed \in BOOLEAN /\ (SetPad(p, pushed) \/ UNCHANGED <<pad, told>>)
        BY <3>2 DEF MovePad, Moving, Silently
      <4>2. UNCHANGED <<pointer, live, cleared>>
        BY <3>2 DEF MovePad
      <4> HIDE DEF pushed
      <4> QED
        BY <4>1, <4>2
    <3> QED
      BY <1>6, <3>1, <3>2
  <2> HIDE DEF p
  <2> QED
    BY <2>1, <2>2, PadSet DEF ToldInv
<1>7. CASE ReleaseKey \/ SetGameKey
  <2>1. /\ UNCHANGED <<pointer, pad>>
        /\ Head(work).what \in Key /\ \E down \in BOOLEAN : SetKey(Head(work).what, down)
    BY <1>7, TakenTask DEF ReleaseKey, SetGameKey, InputTypeOK
  <2> QED
    BY <2>1, KeySet DEF ToldInv
<1>8. CASE PressA
  <2> DEFINE a == Action \in sample.buttons
  <2>1. /\ UNCHANGED <<pad, live, cleared>>
        /\ told \in [keys : SUBSET Key, pads : SUBSET Stick, pointer : BOOLEAN]
        /\ a \in BOOLEAN
        /\ IF a = prevA THEN UNCHANGED <<pointer, told>>
           ELSE pointer' = a /\ told' = [told EXCEPT !.pointer = a]
    BY <1>8 DEF PressA, Tell, Silently, InputTypeOK
  <2> HIDE DEF a
  <2> QED
    BY <2>1 DEF ToldInv
<1> QED
  BY <1>2, <1>3, <1>4, <1>5, <1>6, <1>7, <1>8 DEF InputNext, Pump

\* Nothing more is held, and the work is the same.
LEMMA NoMoreHeld ==
    ASSUME PumpInv, UNCHANGED <<controller, cursor, prevA, pointer, pad, sample, work>>,
           \A k \in Key : "down" \in live'[k] => "down" \in live[k]
    PROVE  PumpInv'
<1>1. /\ NothingAmiss => NothingAmiss'
      /\ KeysGo => KeysGo'
      /\ PointerGoes' = PointerGoes /\ PadsGo' = PadsGo /\ Due' = Due
      /\ \A k \in Key : HeldByController(k)' = HeldByController(k)
  BY DEF NothingAmiss, KeysGo, PointerGoes, PadsGo, HeldByController, Due
<1>2. ToScan => ToScan'
  BY <1>1 DEF ToScan, Only, Ends, NextToLast
<1>3. ToPoint => ToPoint'
  BY <1>1 DEF ToPoint, Only, Ends
<1>4. ToPlay => ToPlay'
  BY <1>1 DEF ToPlay, Only
<1> QED
  BY <1>1, <1>2, <1>3, <1>4 DEF PumpInv

LEMMA PumpBegins ==
    ASSUME InputTypeOK, PumpInv, NEW forKeyboard \in BOOLEAN, Begin(forKeyboard)
    PROVE  PumpInv'
<1> USE DEF modeVars, keyVars
<1>1. PICK a \in {Closing, <<>>} : work' = a \o Once("scan") /\ (a = Closing => controller)
  <2>1. CASE controller /\ ~attached
    BY <2>1 DEF Begin
  <2>2. CASE ~(controller /\ ~attached)
    <3>1. work' = <<>> \o Once("scan") /\ Closing # <<>>
      BY <2>2, ClosingTasks DEF Begin, Ends
    <3> QED
      BY <3>1
  <2> QED
    BY <2>1, <2>2
<1>2. /\ ToSet(work') = ToSet(a) \cup {Task("scan", "none")}
      /\ Ends(work', "scan") /\ NextToLast(work', "close")
  BY <1>1, BegunTasks
<1>3. NothingAmiss /\ work = <<>> /\ (cursor /\ pointer => prevA)
      /\ UNCHANGED <<controller, cursor, prevA, pointer, pad, live, sample>>
  BY DEF Begin, Pumping, PumpInv
<1>4. NothingAmiss'
  BY <1>3 DEF NothingAmiss, HeldByController
<1>5. \A t \in Due' : t.do \in {"releasePointer", "releasePad", "releaseKey", "resetTriggers", "close", "scan"}
  <2>1. CASE a = <<>>
    BY <1>2, <2>1, TaskOf DEF Due, ToSet
  <2>2. CASE a = Closing
    BY <1>2, <2>2, ClosingTasks, Released, TaskOf DEF Due
  <2> QED
    BY <2>1, <2>2
<1>6. Task("close", "none") \in Due' => controller' /\ PointerGoes' /\ PadsGo' /\ KeysGo'
  <2>1. CASE a = <<>>
    <3>1. Task("close", "none").do = "close" /\ Task("scan", "none").do = "scan"
      BY TaskOf
    <3>2. ToSet(a) = {}
      BY <2>1 DEF ToSet
    <3> QED
      BY <1>2, <3>1, <3>2 DEF Due
  <2>2. CASE a = Closing
    <3>1. controller'
      BY <1>1, <1>3, <2>2
    <3>2. PointerGoes'
      BY <1>2, <2>2, ClosingTasks DEF Due, PointerGoes
    <3>3. PadsGo'
      <4>1. pad \subseteq Stick
        BY DEF InputTypeOK
      <4> QED
        BY <1>2, <1>3, <2>2, <4>1, ClosingTasks, Released DEF Due, PadsGo
    <3>4. KeysGo'
      BY <1>2, <2>2, ClosingTasks, Released DEF Due, KeysGo
    <3> QED
      BY <3>1, <3>2, <3>3, <3>4
  <2> QED
    BY <2>1, <2>2
<1> QED
  BY <1>2, <1>3, <1>4, <1>5, <1>6 DEF PumpInv, ToScan, Only, Ends

\* The rest of the work in each stage.
LEMMA ScanLeft ==
    ASSUME work \in Seq(Tasks), work # <<>>, ToScan, work' = Tail(work), Head(work).do # "scan"
    PROVE  /\ Ends(work', "scan") /\ NextToLast(work', "close")
           /\ Only({"releasePointer", "releasePad", "releaseKey", "resetTriggers", "close", "scan"})'
           /\ Due = {Head(work)} \cup Due'
           /\ Head(work).do = "close" => \A t \in Due' : t.do = "scan"
<1> DEFINE t == Tail(work)
<1> HIDE DEF t
<1>1. t = Tail(work)
  BY DEF t
<1>2. /\ Ends(t, "scan") /\ NextToLast(t, "close") /\ Due = {Head(work)} \cup ToSet(t)
      /\ Head(work).do = "close" => Len(t) = 1
      /\ t \in Seq(Tasks)
  BY <1>1, TakenUp DEF ToScan
<1>3. Len(t) = 1 => \A x \in ToSet(t) : x.do = "scan"
  BY <1>2 DEF Ends, ToSet
<1> QED
  BY <1>1, <1>2, <1>3 DEF ToScan, Only, Due

LEMMA CursorLeft ==
    ASSUME work \in Seq(Tasks), work # <<>>, ToPoint, work' = Tail(work)
    PROVE  /\ Due = {Head(work)} \cup Due'
           /\ IF Head(work).do = "pressA" THEN work' = <<>> /\ Due' = {}
              ELSE /\ Ends(work', "pressA")
                   /\ Only({"releasePad", "releaseKey", "resetTriggers", "movePointer", "pressA"})'
<1> DEFINE t == Tail(work)
<1> HIDE DEF t
<1>1. t = Tail(work)
  BY DEF t
<1>2. /\ Due = {Head(work)} \cup ToSet(t)
      /\ IF Head(work).do = "pressA" THEN t = <<>> ELSE Ends(t, "pressA")
  BY <1>1, TakenUp DEF ToPoint
<1>3. t = <<>> => ToSet(t) = {}
  BY DEF ToSet
<1> QED
  BY <1>1, <1>2, <1>3 DEF ToPoint, Only, Due

LEMMA GameLeft ==
    ASSUME work \in Seq(Tasks), work # <<>>, ToPlay, work' = Tail(work)
    PROVE  /\ Due = {Head(work)} \cup Due'
           /\ Only({"releasePointer", "movePad", "setA", "setKey"})'
           /\ work' = <<>> => Due' = {}
<1> DEFINE t == Tail(work)
<1> HIDE DEF t
<1>1. t = Tail(work)
  BY DEF t
<1>2. Due = {Head(work)} \cup ToSet(t)
  BY <1>1, TakenUp
<1>3. t = <<>> => ToSet(t) = {}
  BY DEF ToSet
<1> QED
  BY <1>1, <1>2, <1>3 DEF ToPlay, Only, Due

LEMMA ScanStays == ToScan' /\ (cursor' /\ pointer' => prevA') => PumpInv'
  BY DEF PumpInv, ToScan, Ends

LEMMA CursorStays == ToPoint' /\ (cursor' /\ pointer' => prevA') => PumpInv'
  BY DEF PumpInv, ToPoint, Ends

LEMMA GameStays == ToPlay' /\ (work' = <<>> => Due' = {}) => PumpInv'
<1> SUFFICES ASSUME ToPlay', work' = <<>> => Due' = {} PROVE PumpInv'
  OBVIOUS
<1>1. ~cursor' /\ controller'
  BY DEF ToPlay
<1>2. CASE work' = <<>>
  <2>1. NothingAmiss'
    BY <1>1, <1>2 DEF ToPlay, NothingAmiss, PointerGoes
  <2> QED
    BY <1>1, <1>2, <2>1 DEF PumpInv
<1>3. CASE work' # <<>>
  BY <1>1, <1>3 DEF PumpInv
<1> QED
  BY <1>2, <1>3

\* The stage that the pump is in when it does a task.
LEMMA Stage ==
    ASSUME InputTypeOK, PumpInv, NEW do, Doing(do)
    PROVE  /\ work \in Seq(Tasks) /\ work # <<>> /\ Head(work).do = do /\ Head(work) \in Due
           /\ (cursor /\ pointer => prevA)
           /\ \/ ToScan /\ do \in {"releasePointer", "releasePad", "releaseKey", "resetTriggers", "close", "scan"}
              \/ ToPoint /\ do \in {"releasePad", "releaseKey", "resetTriggers", "movePointer", "pressA"}
              \/ ToPlay /\ do \in {"releasePointer", "movePad", "setA", "setKey"}
<1>1. work \in Seq(Tasks) /\ work # <<>> /\ Head(work).do = do
  BY DEF InputTypeOK, Doing
<1>2. Head(work) \in Due
  BY <1>1, TakenUp
<1>3. ToScan \/ ToPoint \/ ToPlay
  BY <1>1 DEF PumpInv
<1> QED
  BY <1>1, <1>2, <1>3 DEF PumpInv, ToScan, ToPoint, ToPlay, Only

LEMMA PumpReleasesPointer ==
    ASSUME InputTypeOK, PumpInv, ReleasePointer
    PROVE  PumpInv'
<1> USE DEF modeVars, keyVars
<1>1. /\ work' = Tail(work) /\ Doing("releasePointer") /\ pointer' = FALSE
      /\ UNCHANGED <<controller, cursor, prevA, pad, live, sample>>
  BY DEF ReleasePointer, Done
<1>2. Head(work) = Task("releasePointer", "none")
  BY <1>1, TakenTask DEF InputTypeOK
<1>3. \A do, what : do # "releasePointer" => Task(do, what) # Head(work)
  BY <1>2, TaskOf
<1>4. CASE ToScan
  <2>1. /\ Ends(work', "scan") /\ NextToLast(work', "close")
        /\ Only({"releasePointer", "releasePad", "releaseKey", "resetTriggers", "close", "scan"})'
        /\ Due = {Head(work)} \cup Due'
    BY <1>1, <1>4, Stage, ScanLeft
  <2>2. NothingAmiss'
    BY <1>1, <1>4 DEF ToScan, NothingAmiss, HeldByController
  <2>3. Task("close", "none") \in Due' => controller' /\ PointerGoes' /\ PadsGo' /\ KeysGo'
    BY <1>1, <1>3, <1>4, <2>1 DEF ToScan, PointerGoes, PadsGo, KeysGo
  <2>4. ToScan'
    BY <2>1, <2>2, <2>3 DEF ToScan, Ends, NextToLast
  <2> QED
    BY <1>1, <2>4, ScanStays
<1>5. CASE ToPlay
  <2>1. /\ Due = {Head(work)} \cup Due' /\ Only({"releasePointer", "movePad", "setA", "setKey"})'
        /\ work' = <<>> => Due' = {}
    BY <1>1, <1>5, Stage, GameLeft
  <2>2. \A k \in Key : HeldByController(k)' = HeldByController(k)
    BY <1>1 DEF HeldByController
  <2>3. ToPlay'
    BY <1>1, <1>3, <1>5, <2>1, <2>2 DEF ToPlay, PointerGoes
  <2> QED
    BY <2>1, <2>3, GameStays
<1> QED
  BY <1>1, <1>4, <1>5, Stage

\* A touchpad or a key is let go, or a trigger, in either stage.
LEMMA PumpLetsGo ==
    ASSUME InputTypeOK, PumpInv, NEW do \in {"releasePad", "releaseKey", "resetTriggers"},
           Doing(do), work' = Tail(work), UNCHANGED <<controller, cursor, prevA, pointer, sample>>,
           pad' \subseteq pad, do = "releasePad" => Head(work).what \notin pad',
           \A k \in Key : "down" \in live'[k] => "down" \in live[k],
           do = "releaseKey" => "down" \notin live'[Head(work).what]
    PROVE  PumpInv'
<1> DEFINE what == Head(work).what
<1>1. /\ do = "releasePad" => Head(work) = Task("releasePad", what)
      /\ do = "releaseKey" => Head(work) = Task("releaseKey", what)
      /\ do = "resetTriggers" => Head(work) = Task("resetTriggers", "none")
      /\ Head(work).do = do
  BY TakenTask, Stage DEF InputTypeOK
<1>2. Task("close", "none") # Head(work) /\ Task("releasePointer", "none") # Head(work)
  BY <1>1, TaskOf
<1>3. \A p \in pad' : Task("releasePad", p) # Head(work)
  BY <1>1, TaskOf
<1>4. \A k \in Key : "down" \in live'[k] => Task("releaseKey", k) # Head(work)
  BY <1>1, TaskOf
<1>5. Due = {Head(work)} \cup Due' => (PadsGo => PadsGo') /\ (KeysGo => KeysGo')
                                      /\ (PointerGoes => PointerGoes')
  BY <1>2, <1>3, <1>4 DEF PadsGo, KeysGo, PointerGoes
<1>6. CASE ToScan
  <2>1. /\ Ends(work', "scan") /\ NextToLast(work', "close")
        /\ Only({"releasePointer", "releasePad", "releaseKey", "resetTriggers", "close", "scan"})'
        /\ Due = {Head(work)} \cup Due'
    BY <1>1, <1>6, Stage, ScanLeft
  <2>2. NothingAmiss'
    BY <1>6 DEF ToScan, NothingAmiss, HeldByController
  <2>3. Task("close", "none") \in Due' => controller' /\ PointerGoes' /\ PadsGo' /\ KeysGo'
    BY <1>5, <1>6, <2>1 DEF ToScan
  <2>4. ToScan'
    BY <2>1, <2>2, <2>3 DEF ToScan, Ends, NextToLast
  <2> QED
    BY <2>4, ScanStays, Stage
<1>7. CASE ToPoint
  <2>1. /\ Due = {Head(work)} \cup Due' /\ Ends(work', "pressA")
        /\ Only({"releasePad", "releaseKey", "resetTriggers", "movePointer", "pressA"})'
    BY <1>1, <1>7, Stage, CursorLeft
  <2>2. ToPoint'
    BY <1>5, <1>7, <2>1 DEF ToPoint, Ends
  <2> QED
    BY <2>2, CursorStays, Stage
<1> QED
  BY <1>6, <1>7, Stage

LEMMA PumpReleases ==
    ASSUME InputTypeOK, PumpInv, ReleasePad \/ ReleaseKey \/ ResetTriggers
    PROVE  PumpInv'
<1> USE DEF modeVars, keyVars
<1>1. CASE ReleasePad
  <2> DEFINE p == Head(work).what
  <2>1. /\ Doing("releasePad") /\ work' = Tail(work)
        /\ UNCHANGED <<controller, cursor, prevA, pointer, sample, live>>
        /\ IF p \in pad THEN SetPad(p, FALSE) ELSE pad' = pad
    BY <1>1 DEF ReleasePad, Done
  <2>2. p \in Stick
    BY <2>1, TakenTask DEF InputTypeOK
  <2>3. pad' \subseteq pad /\ p \notin pad'
    BY <2>1, <2>2, PadSet DEF Switched
  <2> QED
    BY <2>1, <2>3, PumpLetsGo
<1>2. CASE ReleaseKey
  <2> DEFINE k == Head(work).what
  <2>1. /\ Doing("releaseKey") /\ work' = Tail(work) /\ SetKey(k, FALSE)
        /\ UNCHANGED <<controller, cursor, prevA, pointer, pad, sample>>
    BY <1>2 DEF ReleaseKey, Done
  <2>2. k \in Key
    BY <2>1, TakenTask DEF InputTypeOK
  <2>3. \A j \in Key : "down" \in live'[j] <=> IF j = k THEN FALSE ELSE "down" \in live[j]
    BY <2>1, <2>2, KeySet
  <2> QED
    BY <2>1, <2>2, <2>3, PumpLetsGo
<1>3. CASE ResetTriggers
  <2>1. /\ Doing("resetTriggers") /\ work' = Tail(work)
        /\ UNCHANGED <<controller, cursor, prevA, pointer, pad, sample, live>>
    BY <1>3 DEF ResetTriggers, Done
  <2> QED
    BY <2>1, PumpLetsGo
<1> QED
  BY <1>1, <1>2, <1>3

\* The controller is closed when nothing is held any more.
LEMMA PumpCloses ==
    ASSUME InputTypeOK, PumpInv, CloseController
    PROVE  PumpInv'
<1>1. /\ Doing("close") /\ work' = Tail(work) /\ controller' = FALSE
      /\ UNCHANGED <<cursor, live, pointer, pad, sample>>
  BY DEF CloseController, Done, keyVars
<1>2. /\ ToScan /\ work \in Seq(Tasks) /\ work # <<>> /\ Head(work).do = "close"
      /\ Head(work) = Task("close", "none") /\ Head(work) \in Due
  BY <1>1, Stage, TakenTask DEF InputTypeOK
<1>3. /\ Ends(work', "scan") /\ NextToLast(work', "close")
      /\ Only({"releasePointer", "releasePad", "releaseKey", "resetTriggers", "close", "scan"})'
      /\ Due = {Head(work)} \cup Due' /\ \A t \in Due' : t.do = "scan"
  BY <1>1, <1>2, ScanLeft
<1>4. \A t \in Due : t.do \in {"close", "scan"}
  BY <1>2, <1>3
<1>5. PointerGoes /\ PadsGo /\ KeysGo
  BY <1>2 DEF ToScan
<1>6. ~pointer /\ pad = {} /\ \A k \in Key : "down" \notin live[k]
  BY <1>4, <1>5, TaskOf DEF PointerGoes, PadsGo, KeysGo, InputTypeOK
<1>7. NothingAmiss'
  BY <1>1, <1>6 DEF NothingAmiss
<1>8. Task("close", "none") \notin Due'
  BY <1>3, TaskOf
<1>9. ToScan'
  BY <1>3, <1>7, <1>8 DEF ToScan, Ends, NextToLast
<1> QED
  BY <1>1, <1>6, <1>9, ScanStays

\* Select is down anew: what the old mode held is to be released in the new one.
LEMMA PumpScans ==
    ASSUME InputTypeOK, PumpInv, Scan
    PROVE  PumpInv'
<1> USE DEF modeVars, keyVars
<1>1. /\ Doing("scan") /\ UNCHANGED <<prevA, live, pointer, pad>> /\ (NotFound \/ \E s \in Sample : Sampled(s))
  BY DEF Scan
<1>2. ToScan /\ work \in Seq(Tasks) /\ work # <<>> /\ Head(work).do = "scan" /\ (cursor /\ pointer => prevA)
  BY <1>1, Stage
<1>3. NothingAmiss /\ pad \subseteq Stick /\ cursor \in BOOLEAN
  BY <1>2 DEF ToScan, InputTypeOK
<1>4. CASE NotFound
  <2>1. work' = Tail(work) /\ UNCHANGED <<controller, cursor, sample>>
    BY <1>4 DEF NotFound, Done
  <2>2. work' = <<>>
    <3> DEFINE t == Tail(work)
    <3> HIDE DEF t
    <3>1. t = Tail(work)
      BY DEF t
    <3>2. t = <<>>
      BY <3>1, <1>2, TakenUp DEF ToScan
    <3> QED
      BY <2>1, <3>1, <3>2
  <2>3. NothingAmiss'
    BY <1>1, <1>3, <2>1 DEF NothingAmiss, HeldByController
  <2> QED
    BY <1>1, <1>2, <2>1, <2>2, <2>3 DEF PumpInv
<1>5. ASSUME NEW s \in Sample, Sampled(s)
      PROVE  PumpInv'
  <2> DEFINE toggled == s.select /\ ~prevSelect
             first == IF ~toggled THEN <<>> ELSE IF cursor THEN Once("releasePointer") ELSE ReleaseAll
  <2>1. controller' = TRUE /\ cursor' = (cursor # toggled) /\ work' = first \o ModeTasks(cursor')
    BY <1>5 DEF Sampled
  <2>2. first \in Seq(Tasks)
    BY OneTask, Released
  <2>3. toggled \in BOOLEAN
    OBVIOUS
  <2>4. ~cursor => ~pointer
    BY <1>3 DEF NothingAmiss
  <2>5. cursor => pad = {} /\ \A k \in Key : "down" \notin live[k]
    BY <1>3 DEF NothingAmiss
  <2>6. CASE cursor'
    <3>1. cursor' = TRUE
      BY <2>1, <2>6
    <3>2. /\ first \in {<<>>, ReleaseAll}
          /\ work' = first \o ModeTasks(TRUE)
      BY <2>1, <3>1, <1>3
    <3>3. \A t \in ToSet(first) : t.do \in {"releasePad", "releaseKey", "resetTriggers"}
      <4>1. ToSet(<<>>) = {}
        BY DEF ToSet
      <4>2. \A t \in ToSet(ReleaseAll) : t.do \in {"releasePad", "releaseKey", "resetTriggers"}
        BY Released, TaskOf
      <4> HIDE DEF first
      <4> QED
        BY <3>2, <4>1, <4>2
    <3> HIDE DEF first
    <3>4. Ends(work', "pressA")
      BY <2>2, <3>2, <3>3, CursorTasks, EndsJoined
    <3>5. Due' = ToSet(first) \cup ToSet(ReleaseAll) \cup {Task("movePointer", "none"), Task("pressA", "none")}
      <4>1. ToSet(first \o ModeTasks(TRUE)) = ToSet(first) \cup ToSet(ModeTasks(TRUE))
        BY <2>2, CursorTasks, Joined
      <4> QED
        BY <3>2, <4>1, CursorTasks DEF Due
    <3>6. Only({"releasePad", "releaseKey", "resetTriggers", "movePointer", "pressA"})'
      BY <3>3, <3>5, Released, TaskOf DEF Only
    <3>7. PadsGo' /\ KeysGo'
      BY <1>1, <1>3, <3>5, Released DEF PadsGo, KeysGo
    <3>8. ToPoint'
      BY <2>1, <2>6, <3>4, <3>6, <3>7 DEF ToPoint, Ends
    <3>9. pointer' => prevA'
      BY <1>1, <1>2, <2>4
    <3> QED
      BY <3>8, <3>9, CursorStays
  <2>7. CASE ~cursor'
    <3>1. cursor' = FALSE
      BY <2>1, <2>7
    <3>2. /\ first \in {<<>>, Once("releasePointer")}
          /\ work' = first \o ModeTasks(FALSE)
      BY <2>1, <3>1, <1>3
    <3>3. ToSet(first) \subseteq {Task("releasePointer", "none")}
      <4>1. ToSet(<<>>) = {}
        BY DEF ToSet
      <4> HIDE DEF first
      <4> QED
        BY <3>2, <4>1, OneTask
    <3> HIDE DEF first
    <3>4. Due' = ToSet(first) \cup ToSet(ModeTasks(FALSE))
      BY <2>2, <3>2, GameTasks, Joined DEF Due
    <3>5. Due' = ToSet(ModeTasks(FALSE))
      BY <3>3, <3>4, GameTasks
    <3>6. Only({"releasePointer", "movePad", "setA", "setKey"})'
      <4>1. \A t \in ToSet(ModeTasks(FALSE)) : t.do \in {"releasePointer", "movePad", "setA", "setKey"}
        <5> SUFFICES ASSUME NEW t \in ToSet(ModeTasks(FALSE))
                     PROVE  t.do \in {"releasePointer", "movePad", "setA", "setKey"}
          OBVIOUS
        <5>1. CASE t = Task("releasePointer", "none") \/ t = Task("setA", "none")
          BY <5>1, TaskOf
        <5>2. CASE (\E p \in Stick : t = Task("movePad", p)) \/ \E k \in Key : t = Task("setKey", k)
          BY <5>2, TaskOf
        <5> QED
          BY <5>1, <5>2, GameTasks
      <4> QED
        BY <3>5, <4>1 DEF Only
    <3>7. PointerGoes' /\ Task("setA", "none") \in Due'
      BY <3>5, GameTasks DEF PointerGoes
    <3>8. \A p \in pad' : Task("movePad", p) \in Due'
      BY <1>1, <1>3, <3>5, GameTasks
    <3>9. \A k \in Key : Task("setKey", k) \in Due'
      BY <3>5, GameTasks
    <3>10. ToPlay'
      BY <2>1, <2>7, <3>6, <3>7, <3>8, <3>9 DEF ToPlay
    <3>11. work' # <<>>
      BY <3>7 DEF Due, ToSet
    <3> QED
      BY <3>10, <3>11, GameStays
  <2> QED
    BY <2>6, <2>7
<1> QED
  BY <1>1, <1>4, <1>5

\* In cursor mode the pointer is pressed when all else is let go.
LEMMA PumpPoints ==
    ASSUME InputTypeOK, PumpInv, MovePointer \/ PressA
    PROVE  PumpInv'
<1> USE DEF modeVars, keyVars
<1>1. CASE MovePointer
  <2>1. /\ Doing("movePointer") /\ work' = Tail(work)
        /\ UNCHANGED <<controller, cursor, prevA, live, pointer, pad, sample>>
    BY <1>1 DEF MovePointer, Done
  <2>2. /\ ToPoint /\ work \in Seq(Tasks) /\ work # <<>> /\ Head(work).do = "movePointer"
        /\ (cursor /\ pointer => prevA) /\ Head(work) = Task("movePointer", "none")
    BY <2>1, Stage, TakenTask DEF InputTypeOK
  <2>3. /\ Due = {Head(work)} \cup Due' /\ Ends(work', "pressA")
        /\ Only({"releasePad", "releaseKey", "resetTriggers", "movePointer", "pressA"})'
    BY <2>1, <2>2, CursorLeft
  <2>4. PadsGo' /\ KeysGo'
    BY <2>1, <2>2, <2>3, TaskOf DEF ToPoint, PadsGo, KeysGo
  <2>5. ToPoint'
    BY <2>1, <2>2, <2>3, <2>4 DEF ToPoint, Ends
  <2> QED
    BY <2>1, <2>2, <2>5, CursorStays
<1>2. CASE PressA
  <2> DEFINE a == Action \in sample.buttons
  <2>1. /\ Doing("pressA") /\ work' = Tail(work)
        /\ UNCHANGED <<controller, cursor, live, pad, sample>>
        /\ prevA' = a /\ IF a = prevA THEN pointer' = pointer ELSE pointer' = a
        /\ a \in BOOLEAN
    BY <1>2 DEF PressA, Done, Tell
  <2>2. /\ ToPoint /\ work \in Seq(Tasks) /\ work # <<>> /\ Head(work).do = "pressA"
        /\ (cursor /\ pointer => prevA)
    BY <2>1, Stage
  <2>3. Due = {Head(work)} \cup Due' /\ work' = <<>> /\ Due' = {}
    BY <2>1, <2>2, CursorLeft
  <2>4. pad = {} /\ \A k \in Key : "down" \notin live[k]
    BY <2>2, <2>3, TaskOf DEF ToPoint, PadsGo, KeysGo
  <2>5. controller /\ cursor
    BY <2>2 DEF ToPoint
  <2>6. pointer' => a
    <3> HIDE DEF a
    <3> QED
      BY <2>1, <2>2, <2>5
  <2>7. NothingAmiss'
    BY <2>1, <2>4, <2>5, <2>6 DEF NothingAmiss
  <2> QED
    BY <2>1, <2>3, <2>6, <2>7 DEF PumpInv
<1> QED
  BY <1>1, <1>2

\* In game mode each pad and each key is set to what the controller holds.
LEMMA PumpPlays ==
    ASSUME InputTypeOK, PumpInv, SetA \/ MovePad \/ SetGameKey
    PROVE  PumpInv'
<1> USE DEF modeVars, keyVars
<1>1. PICK do \in {"setA", "movePad", "setKey"} :
         /\ Doing(do) /\ work' = Tail(work) /\ UNCHANGED <<controller, cursor, pointer, sample>>
         /\ do = "setA" <=> SetA
         /\ do = "movePad" <=> MovePad
         /\ do = "setKey" <=> SetGameKey
  <2>1. CASE SetA
    BY <2>1 DEF SetA, MovePad, SetGameKey, Doing, Done
  <2>2. CASE MovePad
    BY <2>2 DEF SetA, MovePad, SetGameKey, Doing, Done
  <2>3. CASE SetGameKey
    BY <2>3 DEF SetA, MovePad, SetGameKey, Doing, Done
  <2> QED
    BY <2>1, <2>2, <2>3
<1>2. ToPlay /\ work \in Seq(Tasks) /\ work # <<>> /\ Head(work).do = do
  BY <1>1, Stage
<1>3. /\ Due = {Head(work)} \cup Due' /\ Only({"releasePointer", "movePad", "setA", "setKey"})'
      /\ work' = <<>> => Due' = {}
  BY <1>1, <1>2, GameLeft
<1>4. controller' /\ ~cursor' /\ PointerGoes'
  BY <1>1, <1>2, <1>3, TaskOf DEF ToPlay, PointerGoes
<1>5. \A p \in pad' : p \in sample.sticks \/ Task("movePad", p) \in Due'
  <2>1. CASE MovePad
    <3> DEFINE p == Head(work).what
               pushed == p \in sample.sticks
    <3>1. p \in Stick /\ Head(work) = Task("movePad", p)
      BY <1>1, <2>1, TakenTask DEF InputTypeOK
    <3>2. (SetPad(p, pushed) \/ (pad' = pad /\ ((p \in pad) = pushed))) /\ pushed \in BOOLEAN
      BY <2>1 DEF MovePad
    <3>3. \A q \in pad' : IF q = p THEN pushed ELSE q \in pad
      <4> HIDE DEF p
      <4> QED
        BY <3>1, <3>2, PadSet DEF Switched
    <3>4. \A q : q # p => Task("movePad", q) # Head(work)
      BY <3>1, TaskOf
    <3> QED
      BY <1>2, <1>3, <3>3, <3>4 DEF ToPlay
  <2>2. CASE ~MovePad
    <3>1. pad' = pad
      BY <1>1, <2>2 DEF SetA, SetGameKey
    <3>2. \A q : Task("movePad", q) # Head(work)
      BY <1>1, <1>2, <2>2, TaskOf
    <3> QED
      BY <1>2, <1>3, <3>1, <3>2 DEF ToPlay
  <2> QED
    BY <2>1, <2>2
<1>6. \A k \in Key : "down" \in live'[k] => HeldByController(k) \/ Task("setKey", k) \in Due'
  <2>1. CASE SetGameKey
    <3> DEFINE k == Head(work).what
               looked == k \in Triggers \ sample.buttons
               down == k \in sample.buttons \/ (looked /\ Triggered(k))
    <3>1. k \in Key /\ Head(work) = Task("setKey", k)
      BY <1>1, <2>1, TakenTask DEF InputTypeOK
    <3>2. SetKey(k, down) /\ down \in BOOLEAN
      BY <2>1 DEF SetGameKey
    <3>3. down => HeldByController(k)
      BY DEF HeldByController, Triggered
    <3> HIDE DEF down
    <3>4. \A j \in Key : "down" \in live'[j] <=> IF j = k THEN down ELSE "down" \in live[j]
      BY <3>1, <3>2, KeySet
    <3>5. \A j : j # k => Task("setKey", j) # Head(work)
      BY <3>1, TaskOf
    <3> QED
      BY <1>2, <1>3, <3>3, <3>4, <3>5 DEF ToPlay
  <2>2. CASE ~SetGameKey
    <3>1. live' = live
      BY <1>1, <2>2 DEF SetA, MovePad
    <3>2. \A j : Task("setKey", j) # Head(work)
      BY <1>1, <1>2, <2>2, TaskOf
    <3> QED
      BY <1>2, <1>3, <3>1, <3>2 DEF ToPlay
  <2> QED
    BY <2>1, <2>2
<1>7. \A k \in Key : HeldByController(k)' = HeldByController(k)
  BY <1>1 DEF HeldByController
<1>8. ToPlay'
  BY <1>1, <1>3, <1>4, <1>5, <1>6, <1>7 DEF ToPlay
<1> QED
  BY <1>3, <1>8, GameStays

-----------------------------------------------------------------------------
InputInv == InputTypeOK /\ ToldInv /\ PumpInv

LEMMA InputInitially == InputInit => InputInv
<1> SUFFICES ASSUME InputInit PROVE InputInv
  OBVIOUS
<1>1. AtRest \in Sample
  BY DEF AtRest, Sample
<1>2. InputTypeOK
  <2>1. {attached, controller, cursor, prevSelect, prevA, pointer, publishing, calling} \subseteq BOOLEAN
    BY DEF InputInit
  <2>2. live \in [Key -> SUBSET Edge] /\ published \in [Key -> SUBSET Edge]
    BY DEF InputInit
  <2>3. work \in Seq(Tasks)
    BY DEF InputInit
  <2>4. /\ triggerDown \subseteq Triggers /\ pad \subseteq Stick /\ sample \in Sample /\ cleared \subseteq Key
        /\ told \in [keys : SUBSET Key, pads : SUBSET Stick, pointer : BOOLEAN]
    BY <1>1 DEF InputInit
  <2> QED
    BY <2>1, <2>2, <2>3, <2>4 DEF InputTypeOK
<1>3. ToldInv /\ PumpInv
  BY DEF InputInit, ToldInv, PumpInv, NothingAmiss
<1> QED
  BY <1>2, <1>3 DEF InputInv

LEMMA InputStep ==
    ASSUME InputInv, InputNext
    PROVE  InputInv'
<1> USE DEF modeVars, keyVars
<1>1. InputTypeOK /\ ToldInv /\ PumpInv
  BY DEF InputInv
<1>2. InputTypeOK' /\ ToldInv'
  BY <1>1, InputTypedStep, ToldStep
<1>3. ASSUME NestedKeyboardUpdate \/ Publish \/ ClearState \/ CallbackReturn \/ Plug
      PROVE  PumpInv'
  <2>1. UNCHANGED <<controller, cursor, prevA, pointer, pad, sample, work>>
    BY <1>3 DEF NestedKeyboardUpdate, Publish, ClearState, CallbackReturn, Plug
  <2>2. \A k \in Key : "down" \in live'[k] => "down" \in live[k]
    BY <1>3 DEF NestedKeyboardUpdate, Publish, Published, ClearState, CallbackReturn, Plug
  <2> QED
    BY <1>1, <2>1, <2>2, NoMoreHeld
<1>4. PumpInv'
  BY <1>1, <1>3, PumpBegins, PumpReleasesPointer, PumpReleases, PumpCloses, PumpScans, PumpPoints,
     PumpPlays DEF InputNext, Pump
<1> QED
  BY <1>2, <1>4 DEF InputInv

LEMMA InputStutters ==
    ASSUME InputInv, UNCHANGED inputVars
    PROVE  InputInv'
<1>1. /\ UNCHANGED <<attached, controller, cursor, prevSelect, prevA, triggerDown, live, published>>
      /\ UNCHANGED <<pointer, pad, sample, work, publishing, calling, told, cleared>>
  BY DEF inputVars
<1>2. InputTypeOK' /\ ToldInv'
  BY <1>1 DEF InputInv, InputTypeOK, ToldInv
<1>3. PumpInv'
  BY <1>1, NoMoreHeld DEF InputInv
<1> QED
  BY <1>2, <1>3 DEF InputInv

LEMMA InputInvariant == InputSpec => []InputInv
<1>1. InputInit => InputInv
  BY InputInitially
<1>2. InputInv /\ [InputNext]_inputVars => InputInv'
  BY InputStep, InputStutters
<1> QED
  BY <1>1, <1>2, PTL DEF InputSpec

\* The type of the pump's state, for any keys, codes, sticks and triggers: each of its
\* tasks is about a key or a stick of the game.
THEOREM InputTyped == InputSpec => []InputTypeOK
<1>1. InputInv => InputTypeOK
  BY DEF InputInv
<1> QED
  BY <1>1, InputInvariant, PTL

\* Between pumps nothing is held that the controller does not hold, for any keys, sticks
\* and triggers, wherever the mode changed, the controller went or the game cleared its keys.
THEOREM NothingStuckAlways == InputSpec => []NothingStuck
<1>1. InputInv => NothingStuck
  BY DEF InputInv, PumpInv, NothingStuck, Pumping
<1> QED
  BY <1>1, InputInvariant, PTL

\* What the game was told last of each key, of the pointer and of the touchpads is how they
\* are, except for a key that it cleared itself.
THEOREM ToldAsItIsAlways == InputSpec => []ToldAsItIs
<1>1. InputInv => ToldAsItIs
  BY DEF InputInv, ToldInv, ToldAsItIs
<1> QED
  BY <1>1, InputInvariant, PTL
=============================================================================
