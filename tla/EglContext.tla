----------------------------- MODULE EglContext -----------------------------
(***************************************************************************)
(* The one window and the one context of src/s3e_egl.c when SDL owns the   *)
(* display.  EGL lets a game create, bind and destroy contexts in any      *)
(* order; the code has a single SDL context behind them, and puts off its  *)
(* destruction while it is current.                                        *)
(*                                                                         *)
(* With the driver's own EGL the calls are handed on and nothing here      *)
(* changes.  A call that is refused changes nothing but the error, which   *)
(* is left out, as are configurations and versions.                        *)
(***************************************************************************)
EXTENDS Naturals

CONSTANT Contexts  \* the addresses of SDL's contexts

ASSUME NoNullContext == 0 \notin Contexts

VARIABLES library, \* SDL is loaded
          active,  \* g_sdl.active: SDL owns the display
          window,  \* there is a window; it is the surface's handle
          surface, \* g_sdl.surface_valid
          context, \* g_sdl.context, 0 for none
          valid,   \* g_sdl.context_valid
          current, \* g_sdl.current
          pending, \* g_sdl.context_destroy_pending
          alive,   \* the contexts SDL has created and not deleted
          held,    \* the context the game was last given, until it destroys it (history)
          again    \* it was given while its destruction was pending (history)

glVars == <<context, valid, current, pending, alive, held, again>>
eglVars == <<library, active, window, surface, glVars>>

EglTypeOK == /\ {library, active, window, surface, valid, current, pending, again} \subseteq BOOLEAN
             /\ {context, held} \subseteq Contexts \cup {0}
             /\ alive \subseteq Contexts

EglInit == /\ library = FALSE /\ active = FALSE /\ window = FALSE /\ surface = FALSE
           /\ context = 0 /\ valid = FALSE /\ current = FALSE /\ pending = FALSE
           /\ alive = {} /\ held = 0 /\ again = FALSE

\* load_sdl_video, when the host starts; without SDL the host does not start.
LoadSdl == library' = TRUE /\ UNCHANGED <<active, window, surface, glVars>>

\* The driver's EGL refused, or SDL was asked for; SDL's video may refuse too.
Initialize == /\ ~active
              /\ library' = TRUE /\ active' \in BOOLEAN
              /\ UNCHANGED <<window, surface, glVars>>

CreateWindowSurface == /\ active
                       /\ window' = TRUE /\ surface' = TRUE
                       /\ UNCHANGED <<library, active, glVars>>

DestroySurface == /\ active /\ surface
                  /\ surface' = FALSE
                  /\ UNCHANGED <<library, active, window, glVars>>

\* ensure_context: the context there is, whoever asked for it, or a new one.
EnsureContext == IF context # 0 THEN UNCHANGED <<context, alive>>
                 ELSE \E c \in Contexts \ alive : context' = c /\ alive' = alive \cup {c}

CreateContext == /\ active
                 /\ window' = TRUE
                 /\ EnsureContext
                 /\ valid' = TRUE
                 /\ held' = context'
                 /\ again' = pending
                 /\ UNCHANGED <<library, active, surface, current, pending>>

\* The window is there and the context is not.
CreateContextFails == /\ active /\ context = 0
                      /\ window' = TRUE
                      /\ UNCHANGED <<library, active, surface, glVars>>

MakeCurrent == /\ active /\ context # 0 /\ valid /\ surface
               /\ current' = TRUE
               /\ UNCHANGED <<library, active, window, surface, context, valid, pending, alive, held, again>>

\* SDL deletes the context there is.
Deleted == context' = 0 /\ pending' = FALSE /\ alive' = alive \ {context}

\* Mutation of Release: the destruction is not made up for.
ReleaseOnly == /\ active
               /\ current' = FALSE
               /\ UNCHANGED <<library, active, window, surface, context, valid, pending, alive, held, again>>

\* No context is current any more, and destroy_pending_context.
Release == /\ active
           /\ current' = FALSE
           /\ IF pending THEN Deleted ELSE UNCHANGED <<context, pending, alive>>
           /\ UNCHANGED <<library, active, window, surface, valid, held, again>>

\* Mutation of DestroyContext: the handle is not compared.
DestroyUnmatched(c) ==
    /\ active /\ valid
    /\ valid' = FALSE
    /\ held' = IF c = held THEN 0 ELSE held
    /\ again' = (again /\ c # held)
    /\ IF current THEN pending' = TRUE /\ UNCHANGED <<context, alive>> ELSE Deleted
    /\ UNCHANGED <<library, active, window, surface, current>>

\* The handle is compared with g_sdl.context; a release may have cleared that behind a
\* context still valid, and then it is the null handle that is destroyed.
DestroyContext(c) == /\ active /\ valid /\ c = context
                     /\ valid' = FALSE
                     /\ held' = IF c = held THEN 0 ELSE held
                     /\ again' = (again /\ c # held)
                     /\ IF current THEN pending' = TRUE /\ UNCHANGED <<context, alive>> ELSE Deleted
                     /\ UNCHANGED <<library, active, window, surface, current>>

\* egl_backend_shutdown, by eglTerminate or when the host shuts down.
EglShutdown == /\ library' = FALSE /\ active' = FALSE /\ window' = FALSE /\ surface' = FALSE
               /\ valid' = FALSE /\ current' = FALSE /\ held' = 0 /\ again' = FALSE
               /\ Deleted

Terminate == active /\ EglShutdown

EglNext == \/ Initialize \/ CreateWindowSurface \/ DestroySurface
           \/ CreateContext \/ CreateContextFails \/ MakeCurrent \/ Release
           \/ \E c \in Contexts \cup {0} : DestroyContext(c)
           \/ Terminate

-----------------------------------------------------------------------------
\* SDL never has a context but the one the code knows of, and the code knows of none
\* that was deleted: in any order of creating, binding and destroying, none is leaked
\* or deleted twice, and a context whose destruction is put off is the current one.
OneContext == /\ alive = {context} \ {0}
              /\ pending => current
              /\ current => context # 0

\* A context the game was given lives until the game destroys it or terminates the
\* display, unless it was given while its destruction was pending.
HandedOutLives == held # 0 /\ ~again => held \in alive /\ context = held /\ valid
=============================================================================
