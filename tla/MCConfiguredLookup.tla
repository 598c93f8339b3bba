------------------------- MODULE MCConfiguredLookup -------------------------
(* ConfiguredLookup with executables that set what the host sets, under a  *)
(* condition or not, until the table is full.                              *)
EXTENDS ConfiguredLookup

Section(s) == [kind |-> "section", name |-> s]
Entry(k, v) == [kind |-> "entry", key |-> k, value |-> v]
Here == [kind |-> "condition", on |-> "here"]
Elsewhere == [kind |-> "condition", on |-> "elsewhere"]
If(s, k, v) == [kind |-> "condition", on |-> "entry", section |-> s, key |-> k, value |-> v]

MCEmbedded ==
    {<<>>,
     \* Settings of its own, one of them in no section.
     <<Entry("Low", Text("1")), Section("GAME"), Entry("OnlineAccount", Text("GC")),
       Section("Demonware"), Entry("AuthServer", Text("theirs"))>>,
     \* Settings for other platforms and for its own.
     <<Section("GAME"), Elsewhere, Entry("OnlineAccount", Text("NONE")), Entry("Low", Text("1")),
       Here, Entry("OnlineAccount", Text("GC")), If("GAME", "OnlineAccount", Text("GC")),
       Entry("EnableGC", Text("1"))>>,
     \* A full table, in which a long key takes another entry each time.
     <<Section("GAME"), Entry("OnlineAccount", Text("GC")), Entry("OnlineAccountOfLongName", Text("A")),
       Entry("OnlineAccountOfLongName", Text("B")), Entry("Low", Text("1"))>>,
     <<Section("GAME"), Entry("OnlineAccountOfLongName", Text("A")), Entry("Low", Text("1")),
       Entry("VoiceChatEnabled", Text("1")), Entry("EnableGC", Text("1")), Entry("OnlineAccount", Text("GC"))>>,
     \* Integers that refer to others, and round in a circle.
     <<Section("GAME"), Entry("Low", Reference("GAME", "EnableGC", 1)), Entry("EnableGC", Reference("GAME", "Low", -1))>>,
     <<Section("BUCKET"), Entry("Low", Reference("BUCKET", "High", 1)), Entry("High", Reference("BUCKET", "Low", 0))>>}

MCControls == {<<>>, <<[key |-> "server", value |-> "yes"], [key |-> "voice", value |-> "yes"]>>,
               <<[key |-> "server", value |-> "yes"], [key |-> "proxy", value |-> "invalid"],
                 [key |-> "name", value |-> "Ghost"], [key |-> "name", value |-> "invalid"]>>,
               <<[key |-> "server", value |-> "yes"], [key |-> "proxy", value |-> "yes"]>>}

MCKeys == {"Low", "High", "OnlineAccount", "OnlineAccountOfLongName", "AuthServer", "EnableGC", "VoiceChatEnabled"}
MCTruncated == [k \in MCKeys |-> IF k = "OnlineAccountOfLongName" THEN "OnlineAccount" ELSE k]
=============================================================================
