-------------------------- MODULE MCZeroConfSearch --------------------------
(* ZeroConfSearch on a small network. *)
EXTENDS ZeroConfSearch

Ptr(name, gone) == [kind |-> "ptr", name |-> name, gone |-> gone]
Srv(name, host, port) == [kind |-> "srv", name |-> name, gone |-> FALSE, host |-> host, port |-> port]
SrvGone == [kind |-> "srv", name |-> 1, gone |-> TRUE]
Txt(name, text) == [kind |-> "txt", name |-> name, gone |-> FALSE, text |-> text]
TxtGone == [kind |-> "txt", name |-> 1, gone |-> TRUE]
Address(host, ipv4) == [kind |-> "a", name |-> host, gone |-> FALSE, ipv4 |-> ipv4]
AddressGone(host) == [kind |-> "a", name |-> host, gone |-> TRUE]

Announcement(name, port, text, ipv4) ==
    <<Ptr(name, FALSE), Srv(name, 1, port), Txt(name, text), Address(1, ipv4)>>

\* One service whose every record comes, goes and changes, and a second that has
\* to do with a table of one entry.
MCHosts == {1, 2}
MCPackets == {Announcement(1, port, text, ipv4) : port \in {1, 2}, text \in {1, 2}, ipv4 \in {1, 2}}
             \cup
             {<<Ptr(1, TRUE)>>, <<Ptr(2, FALSE)>>, <<Srv(1, 2, 1)>>, <<SrvGone>>, <<TxtGone>>, <<Txt(1, 0)>>,
              <<AddressGone(1)>>, <<Address(2, 1)>>, <<Address(1, 2)>>}
MCExpiring == {"ptr", "srv", "txt", "a"}
MCCallbacks == {Kinds}
MCSomeCallbacks == {Kinds, {"found"}}

\* Two services and two searches, with records withdrawn and given anew at once.
MCHost == {1}
MCTwoServices == {<<Ptr(2, FALSE), Srv(2, 1, 1), Txt(2, 1)>> \o Announcement(1, 1, 1, 1), <<Srv(1, 1, 2)>>,
                  <<Ptr(2, TRUE)>>}
MCNoneExpiring == {}

\* What is assumed of packets where ViewCurrent is proved.
ASSUME OrderlyPackets == \A packet \in Packets : Orderly(InOrder(packet))
=============================================================================
