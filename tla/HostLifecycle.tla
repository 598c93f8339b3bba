--------------------------- MODULE HostLifecycle ---------------------------
(***************************************************************************)
(* A run of the loader, from src/src/main.c's main to its end, with the    *)
(* parts that keep something beyond a call: the SDL window and context,    *)
(* the files, the identity, the heaps and the memory manager.  main reads  *)
(* the image, starts the host, maps the image and patches it, enters the   *)
(* game, and undoes all this in the end or when a step fails.  The process *)
(* may be killed at any point (terminate_handler leaves at once), and the  *)
(* power may fail; only the disk survives.                                 *)
(*                                                                         *)
(* The game is one thread: it makes one call at a time.  The other parts   *)
(* the shutdown ends have modules of their own.                            *)
(***************************************************************************)
EXTENDS EglContext, DeviceId, FileStore

CONSTANTS Heaps,    \* s3e_memory.c's heaps, 8 in the code
          Disks,    \* what the root may hold
          Archives  \* and the archive

ASSUME StoreConstants == /\ Disks \subseteq [Names -> SUBSET Places]
                         /\ Archives \subseteq SUBSET Names

VARIABLES stage,   \* how far main is
          image,   \* the image's data is held
          mapped,  \* the image is mapped
          heaps,   \* the heaps there are
          manager  \* whose memory manager is set

runVars == <<stage, image, mapped, heaps, manager>>
vars == <<runVars, eglVars, idVars, storeVars>>

Stages == {"off", "started", "loaded", "up", "mapped", "ready", "game", "returned", "unmapped",
           "failed", "down", "exited"}

TypeOK == /\ stage \in Stages
          /\ {image, mapped} \subseteq BOOLEAN
          /\ heaps \subseteq Heaps
          /\ manager \in {"host", "game"}
          /\ EglTypeOK /\ IdTypeOK /\ StoreTypeOK

Init == /\ stage = "off" /\ image = FALSE /\ mapped = FALSE
        /\ heaps = {} /\ manager = "host"
        /\ EglInit /\ IdInit /\ StoreInit(Disks, Archives)

Elsewhere == UNCHANGED <<heaps, manager, idVars, storeVars>>

\* main's stages, each of which may fail.
Launch == /\ stage = "off"
          /\ stage' \in {"started", "exited"}
          /\ UNCHANGED <<image, mapped, eglVars>> /\ Elsewhere

LoadImage == /\ stage = "started"
             /\ \/ stage' = "loaded" /\ image' = TRUE
                \/ stage' = "exited" /\ UNCHANGED image
             /\ UNCHANGED <<mapped, eglVars>> /\ Elsewhere

StartHost == /\ stage = "loaded"
             /\ \/ stage' = "up" /\ LoadSdl /\ UNCHANGED image
                \/ stage' = "exited" /\ image' = FALSE /\ EglShutdown
             /\ UNCHANGED mapped /\ Elsewhere

MapImage == /\ stage = "up"
            /\ \/ stage' = "mapped" /\ mapped' = TRUE
               \/ stage' = "failed" /\ UNCHANGED mapped
            /\ UNCHANGED <<image, eglVars>> /\ Elsewhere

\* The frame interpolation; a name that cannot be put in is only reported.
InstallPatches == /\ stage = "mapped"
                  /\ \/ stage' = "ready" /\ UNCHANGED mapped
                     \/ stage' = "failed" /\ mapped' = FALSE
                  /\ UNCHANGED <<image, eglVars>> /\ Elsewhere

EnterGame == /\ stage = "ready"
             /\ stage' = "game"
             /\ UNCHANGED <<image, mapped, eglVars>> /\ Elsewhere

GameReturns == /\ stage = "game" /\ IdIdle
               /\ stage' = "returned"
               /\ UNCHANGED <<image, mapped, eglVars>> /\ Elsewhere

UnmapImage == /\ stage = "returned"
              /\ stage' = "unmapped" /\ mapped' = FALSE
              /\ UNCHANGED <<image, eglVars>> /\ Elsewhere

\* Mutation of HostShutdown: the memory manager stays the game's.
HostShutdownKeeping == /\ stage \in {"unmapped", "failed"}
                       /\ stage' = "down"
                       /\ EglShutdown /\ CloseMemoryFiles /\ heaps' = {}
                       /\ UNCHANGED <<image, mapped, manager, idVars, disk, archive, index, indexed, user>>

\* s3e_host_shutdown.
HostShutdown == /\ stage \in {"unmapped", "failed"}
                /\ stage' = "down"
                /\ manager' = "host"
                /\ EglShutdown /\ CloseMemoryFiles /\ heaps' = {}
                /\ UNCHANGED <<image, mapped, idVars, disk, archive, index, indexed, user>>

FreeImage == /\ stage = "down"
             /\ stage' = "exited" /\ image' = FALSE
             /\ UNCHANGED <<mapped, eglVars>> /\ Elsewhere

-----------------------------------------------------------------------------
(* The game's calls. *)

InGame == stage = "game" /\ IdIdle

HeapCreate(h) == /\ InGame /\ h \notin heaps
                 /\ heaps' = heaps \cup {h}
                 /\ UNCHANGED <<stage, image, mapped, manager, eglVars, idVars, storeVars>>

HeapDestroy(h) == /\ InGame /\ h \in heaps
                  /\ heaps' = heaps \ {h}
                  /\ UNCHANGED <<stage, image, mapped, manager, eglVars, idVars, storeVars>>

SetUserMemMgr == /\ InGame
                 /\ manager' \in {"host", "game"} \ {manager}
                 /\ UNCHANGED <<stage, image, mapped, heaps, eglVars, idVars, storeVars>>

GameGraphics == InGame /\ EglNext /\ UNCHANGED <<runVars, idVars, storeVars>>
GameFiles == InGame /\ StoreNext /\ UNCHANGED <<runVars, eglVars, idVars>>
GameIdentity == stage = "game" /\ IdNext /\ UNCHANGED <<runVars, eglVars, storeVars>>

-----------------------------------------------------------------------------
(* What comes from outside. *)

\* All of the process goes with it.
ProcessGone == /\ stage' = "off" /\ image' = FALSE /\ mapped' = FALSE
               /\ heaps' = {} /\ manager' = "host"
               /\ EglShutdown /\ StoreProcessEnds

\* By a signal, or the end of main.
Killed == stage # "off" /\ ProcessGone /\ IdProcessEnds /\ UNCHANGED user

PowerFails == ProcessGone /\ IdPowerFails /\ user' \in CopiesLeft

DirectoryFlushed == IdReachesCard /\ UNCHANGED <<runVars, eglVars, storeVars>>

Next == \/ Launch \/ LoadImage \/ StartHost \/ MapImage \/ InstallPatches \/ EnterGame
        \/ GameReturns \/ UnmapImage \/ HostShutdown \/ FreeImage
        \/ \E h \in Heaps : HeapCreate(h) \/ HeapDestroy(h)
        \/ SetUserMemMgr \/ GameGraphics \/ GameFiles \/ GameIdentity
        \/ Killed \/ PowerFails \/ DirectoryFlushed

Spec == Init /\ [][Next]_vars

-----------------------------------------------------------------------------
\* However far the run came and wherever it failed, main ends with nothing held: no
\* image, no window or context, no buffer of a file, no heap, and not the memory
\* manager of a game that is no longer there.
LeavesNothing == stage = "exited" => /\ ~image /\ ~mapped /\ ~library /\ ~window
                                     /\ alive = {} /\ tracked = {} /\ heaps = {}
                                     /\ manager = "host"

\* What the game has written stays, but for a loss of the power: no later call puts the
\* game's own copy in its place, in this process or in the next.
WritingsKept == [][\/ PowerFails
                   \/ \A n \in Names : user[n] = "own" => user'[n] = "own"]_storeVars
=============================================================================
