--------------------------- MODULE Configuration ---------------------------
(***************************************************************************)
(* The configuration of src/s3e_config.c.  s3e_host_set_config reads the   *)
(* lines embedded in the executable, some of them under a condition, then  *)
(* the player's config.txt, and then sets what the host wants the game to  *)
(* read whatever was there before; the table of entries is of a fixed size *)
(* and what does not fit is dropped.  The game reads texts and integers,   *)
(* which may refer to other entries, and whether the player has a server   *)
(* decides to which names its lookups go.                                  *)
(*                                                                         *)
(* A line has been taken apart: comments, quotes and blanks are left out.  *)
(* The settings of the host stand for their kinds: one for every run, one  *)
(* that the player chooses, one that tells with or without a server, and   *)
(* one that only a run without a server makes.                             *)
(***************************************************************************)
EXTENDS Integers, Sequences, SequencesExt

CONSTANTS Embedded,   \* the files the executable may have, sequences of lines
          Controls,   \* what config.txt may have, sequences of lines
          MaxEntries, \* 512 in the code
          Truncated   \* each key, as long as an entry has room for

ASSUME ConfigConstants == /\ MaxEntries \in Nat
                          /\ \A k \in {"EnableGC", "VoiceChatEnabled", "OnlineAccount", "AuthServer"} :
                                Truncated[k] = k

VARIABLES unread,  \* the lines still to be read
          section, \* the section they belong to, Empty for none
          active,  \* the last condition held
          entries, \* g_config_entries
          control  \* config.txt, as load_control_config leaves it, <<>> before

configVars == <<unread, section, active, entries, control>>

Empty == ""
Text(t) == [kind |-> "text", text |-> t]
Number(n) == [kind |-> "number", number |-> n]
Reference(s, k, plus) == [kind |-> "reference", section |-> s, key |-> k, plus |-> plus]

Setting(s, k, v) == [section |-> s, key |-> k, value |-> v]

ConfigInit == /\ unread \in Embedded
              /\ section = Empty /\ active = TRUE
              /\ entries = <<>> /\ control = <<>>

Configured == control # <<>>

\* config_find compares with the whole key, 0 for none.
Find(s, k) == SelectInSeq(entries, LAMBDA e : e.section = s /\ e.key = k)

Missing == Text("missing")
Get(s, k) == IF Find(s, k) = 0 THEN Missing ELSE entries[Find(s, k)].value

\* Mutation of WithSetting: the room is tested first.
WithSettingIfRoom(table, setting) ==
    LET stored == [setting EXCEPT !.key = Truncated[@]]
        i == SelectInSeq(table, LAMBDA e : e.section = setting.section /\ e.key = setting.key)
    IN  CASE setting.section = Empty \/ Len(table) >= MaxEntries -> table
          [] OTHER -> IF i # 0 THEN [table EXCEPT ![i] = stored] ELSE Append(table, stored)

\* config_set: in the place of the entry of that name, or at the end while there is room.
WithSetting(table, setting) ==
    LET stored == [setting EXCEPT !.key = Truncated[@]]
        i == SelectInSeq(table, LAMBDA e : e.section = setting.section /\ e.key = setting.key)
    IN  CASE setting.section = Empty -> table
          [] setting.section # Empty /\ i # 0 -> [table EXCEPT ![i] = stored]
          [] OTHER -> IF Len(table) < MaxEntries THEN Append(table, stored) ELSE table

\* A condition is of the platform, and then it holds or not, or on an entry.
Matches(condition) == \/ condition.on = "here"
                      \/ condition.on = "entry" /\ Get(condition.section, condition.key) = condition.value

ReadLine ==
    /\ unread # <<>>
    /\ unread' = Tail(unread)
    /\ LET line == Head(unread)
       IN  \/ /\ line.kind = "section"
              /\ section' = line.name
              /\ UNCHANGED <<active, entries>>
           \/ /\ line.kind = "condition"
              /\ active' = Matches(line)
              /\ UNCHANGED <<section, entries>>
           \/ /\ line.kind = "entry"
              /\ entries' = IF active THEN WithSetting(entries, Setting(section, line.key, line.value))
                            ELSE entries
              /\ UNCHANGED <<section, active>>
    /\ UNCHANGED control

-----------------------------------------------------------------------------
(* config.txt, and what the host sets. *)

Defaults == [server |-> "no", proxy |-> "no", voice |-> "no", name |-> "Player"]

\* A flag that is no number leaves what was set, and so does a name that is not valid;
\* the server is as the last line has it.
WithLine(c, line) == IF line.value = "invalid" THEN c ELSE [c EXCEPT ![line.key] = line.value]

Enabled(c) == c.server = "yes" /\ c.proxy = "no"

\* What the host sets in every run, and with or without a server.
HostSettings(c) ==
    <<Setting("GAME", "EnableGC", Text("0")),
      Setting("GAME", "VoiceChatEnabled", Text(IF c.voice = "yes" THEN "1" ELSE "0")),
      Setting("GAME", "OnlineAccount", Text(IF Enabled(c) THEN "GENERIC" ELSE "NONE"))>>
    \o IF Enabled(c) THEN <<>> ELSE <<Setting("Demonware", "AuthServer", Text(Empty))>>

\* One after another.
AllSet(table, settings) ==
    LET after[n \in 0..Len(settings)] == IF n = 0 THEN table
                                         ELSE WithSetting(after[n - 1], settings[n])
    IN  after[Len(settings)]

Configure == /\ unread = <<>> /\ ~Configured
             /\ \E lines \in Controls :
                   LET c == FoldLeft(WithLine, Defaults, lines)
                   IN  /\ control' = <<c>>
                       /\ entries' = AllSet(entries, HostSettings(c))
             /\ UNCHANGED <<unread, section, active>>

-----------------------------------------------------------------------------
\* strtol, of the texts there are: only what the host sets a flag to begins with a number.
NumberIn(text) == IF text = "0" THEN <<0>> ELSE IF text = "1" THEN <<1>> ELSE <<>>

\* What an entry gives as an integer when the one it may refer to is among those deeper
\* in the chain; <<>> if there is none.
IntOf(i, deeper) ==
    IF i = 0 THEN <<>>
    ELSE LET v == entries[i].value
         IN  CASE v.kind = "number" -> <<v.number>>
               [] v.kind = "text" -> NumberIn(v.text)
               [] v.kind = "reference" -> LET base == deeper[Find(v.section, v.key)]
                                          IN  IF base = <<>> THEN <<>> ELSE <<base[1] + v.plus>>

\* s3eConfigGetInt: a number, what a text says of one, or what a reference refers to
\* and so on, four times at the most, and what it adds to that.
GetInt(s, k) ==
    LET int[depth \in 0..5] ==
            [i \in 0..Len(entries) |-> IF depth > 4 THEN <<>> ELSE IntOf(i, int[depth + 1])]
    IN  int[0][Find(s, k)]

\* s3e_multiplayer_resolve_hostname: the names of the game's own servers become the
\* player's, if there is one.
ResolveHostname(name) == IF name = "game" /\ Configured /\ Enabled(control[1]) THEN "player" ELSE name
=============================================================================
