-------------------------- MODULE ConfiguredLookup --------------------------
(***************************************************************************)
(* The configuration and the lookups that rest on it: the host configures  *)
(* before it enters the game, and each lookup of the game's is of the name *)
(* the configuration gives for the one it asked for.                       *)
(***************************************************************************)
EXTENDS Configuration, DnsLookup

VARIABLES asked, \* lookup -> the name the game asked for
          names  \* lookup -> the name its thread resolves

allVars == <<configVars, vars, asked, names>>

ConfiguredInit == /\ ConfigInit /\ Init
                  /\ asked = [l \in Lookup |-> "none"]
                  /\ names = [l \in Lookup |-> "none"]

Reading == (ReadLine \/ Configure) /\ UNCHANGED <<vars, asked, names>>

\* The name is copied into the lookup before its thread is started.
Asking(name) == /\ Configured
                /\ StartLookup \/ StartFails
                /\ asked' = [asked EXCEPT ![started'] = name]
                /\ names' = [names EXCEPT ![started'] = ResolveHostname(name)]
                /\ UNCHANGED configVars

Others == Configured /\ OtherNext /\ UNCHANGED <<configVars, asked, names>>

ConfiguredNext == Reading \/ (\E name \in {"game", "other"} : Asking(name)) \/ Others

ConfiguredSpec == ConfiguredInit /\ [][ConfiguredNext]_allVars /\ Fairness

-----------------------------------------------------------------------------
\* What the game reads of its account agrees with where its lookups go, whatever the
\* executable and the player's file say: told of an account of its own it asks the
\* player's server, told of none it asks nobody else.  It may find the host's settings
\* missing from a full table, but never a setting of its own in their place, and those
\* that are flags are the same read as integers, though what the executable had there was
\* of another kind; and integers that refer to each other are refused.
OnlineAsTold ==
    Configured =>
        LET account == Get("GAME", "OnlineAccount")
            own == HostSettings(control[1])
            refers == {<<i, Find(entries[i].value.section, entries[i].value.key)>> :
                          i \in {j \in DOMAIN entries : entries[j].value.kind = "reference"}}
        IN  /\ \A i \in DOMAIN own :
                  LET read == Get(own[i].section, own[i].key)
                  IN  \/ /\ read = own[i].value
                         /\ GetInt(own[i].section, own[i].key) = NumberIn(read.text)
                      \/ read = Missing /\ Len(entries) = MaxEntries
            /\ \A l \in Lookup :
                  asked[l] = "game" => /\ account = Text("GENERIC") => names[l] = "player"
                                       /\ account = Text("NONE") => names[l] = "game"
            /\ \A pair \in refers : <<pair[2], pair[1]>> \in refers =>
                  GetInt(entries[pair[1]].section, entries[pair[1]].key) = <<>>
=============================================================================
