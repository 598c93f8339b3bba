------------------------- MODULE ZeroConfPublisher -------------------------
(***************************************************************************)
(* The publications of src/s3e_zeroconf.c: the game publishes its lobby    *)
(* and changes the lobby's text; the host announces a change, but not      *)
(* sooner than a second after the last announcement, announces everything  *)
(* every minute, and answers queries.  Any of these sends may fail.        *)
(*                                                                         *)
(* Everything runs on the guest's thread.  The instants the code keeps are *)
(* kept here as the time until they come, 0 for the past; a unit is a part *)
(* of a second and the intervals are constants.                            *)
(*                                                                         *)
(* A pump serves searches, then publishers, and neither touches the state  *)
(* of the other: ZeroConfProofs extends this module and ZeroConfSearch     *)
(* together, so that no name of the one is a name of the other.            *)
(***************************************************************************)
EXTENDS Naturals, FiniteSetsExt

CONSTANTS PublisherCount,   \* ZERO_CONF_MAX_PUBLISHERS, 4 in the code
          Texts,            \* the texts the game publishes
          Nothing,          \* what listeners know of a service never or no longer announced
          TxtInterval,      \* ZERO_CONF_TXT_UPDATE_INTERVAL_MS
          AnnounceInterval  \* ZERO_CONF_ANNOUNCE_INTERVAL_MS

ASSUME PublisherConstants == /\ PublisherCount \in Nat \ {0}
                             /\ Nothing \notin Texts
                             /\ TxtInterval \in Nat \ {0}
                             /\ AnnounceInterval \in Nat /\ TxtInterval < AnnounceInterval

VARIABLES publishers, \* g_publishers
          listeners   \* per publisher, what was last sent to everyone (history)

publisherVars == <<publishers, listeners>>

Publishers == 1..PublisherCount
NoText == Nothing

\* dueIn, nextIn: until txt_update_due_ms and next_announce_ms; sinceLast: from
\* last_announce_ms on, as far as the interval.
Publisher == [inUse : BOOLEAN, txt : Texts \cup {NoText}, announced : Texts \cup {NoText},
              pending : BOOLEAN, dueIn : 0..TxtInterval, nextIn : 0..AnnounceInterval,
              sinceLast : 0..TxtInterval]

Unused == [inUse |-> FALSE, txt |-> NoText, announced |-> NoText, pending |-> FALSE,
           dueIn |-> 0, nextIn |-> 0, sinceLast |-> 0]

PublisherTypeOK == /\ publishers \in [Publishers -> Publisher]
                   /\ listeners \in [Publishers -> Texts \cup {Nothing}]

PublisherInit == /\ publishers = [p \in Publishers |-> Unused]
                 /\ listeners = [p \in Publishers |-> Nothing]

\* mark_publisher_txt_announced and the instants set with it.
Announced(pub) == [pub EXCEPT !.announced = pub.txt, !.pending = FALSE, !.dueIn = 0,
                              !.sinceLast = 0, !.nextIn = AnnounceInterval]

\* The first announcement counts as made even if it could not be sent.
Publish(txt, sent) ==
    /\ \E p \in Publishers : ~publishers[p].inUse
    /\ LET p == Min({q \in Publishers : ~publishers[q].inUse})
       IN  /\ publishers' = [publishers EXCEPT ![p] = Announced([Unused EXCEPT !.inUse = TRUE, !.txt = txt])]
           /\ listeners' = [listeners EXCEPT ![p] = IF sent THEN txt ELSE Nothing]

\* Mutation of Updated: a text put back is still pending.
UpdatedForgetting(pub, txt) ==
    IF pub.pending THEN [pub EXCEPT !.txt = txt]
    ELSE [pub EXCEPT !.txt = txt, !.pending = TRUE, !.dueIn = TxtInterval - pub.sinceLast]

\* Mutation of Updated: due at once.
UpdatedNow(pub, txt) ==
    IF txt = pub.announced THEN [pub EXCEPT !.txt = txt, !.pending = FALSE, !.dueIn = 0]
    ELSE [pub EXCEPT !.txt = txt, !.pending = TRUE]

\* A text put back to what was announced needs no announcement; otherwise the first
\* change since sets the instant.
Updated(pub, txt) ==
    IF txt = pub.announced THEN [pub EXCEPT !.txt = txt, !.pending = FALSE, !.dueIn = 0]
    ELSE IF pub.pending THEN [pub EXCEPT !.txt = txt]
    ELSE [pub EXCEPT !.txt = txt, !.pending = TRUE, !.dueIn = TxtInterval - pub.sinceLast]

UpdateTxtRecord(p, txt) ==
    /\ publishers[p].inUse
    /\ txt # publishers[p].txt
    /\ publishers' = [publishers EXCEPT ![p] = Updated(@, txt)]
    /\ UNCHANGED listeners

Unpublish(p, sent) ==
    /\ publishers[p].inUse
    /\ publishers' = [publishers EXCEPT ![p] = Unused]
    /\ listeners' = [listeners EXCEPT ![p] = IF sent THEN Nothing ELSE @]

\* A query is answered with the present text; one to be answered to the asker alone
\* changes nothing here.
Answer(p) ==
    /\ publishers[p].inUse
    /\ listeners' = [listeners EXCEPT ![p] = publishers[p].txt]
    /\ UNCHANGED publishers

UpdateDue(pub) == pub.pending /\ pub.dueIn = 0
\* Mutation of Sends: not every minute.
SendsChangesOnly(pub) == pub.inUse /\ UpdateDue(pub)

Sends(pub) == pub.inUse /\ (UpdateDue(pub) \/ pub.nextIn = 0)

\* What s3e_zero_conf_pump does for a publisher: a change that is due, or else the
\* announcement of the minute; the one is tried again in a second, the other in a
\* minute.
Pumped(pub, sent) ==
    IF ~Sends(pub) THEN pub
    ELSE IF sent THEN Announced(pub)
    ELSE IF UpdateDue(pub) THEN [pub EXCEPT !.dueIn = TxtInterval]
    ELSE [pub EXCEPT !.nextIn = AnnounceInterval]

Pump(sent) ==
    /\ publishers' = [p \in Publishers |-> Pumped(publishers[p], sent[p])]
    /\ listeners' = [p \in Publishers |-> IF Sends(publishers[p]) /\ sent[p] THEN publishers[p].txt
                                      ELSE listeners[p]]

Less(n) == IF n = 0 THEN 0 ELSE n - 1

Tick == /\ publishers' = [p \in Publishers |->
                             [publishers[p] EXCEPT !.dueIn = Less(@), !.nextIn = Less(@),
                                                   !.sinceLast = Min({@ + 1, TxtInterval})]]
        /\ UNCHANGED listeners

\* s3e_zero_conf_shutdown says goodbye for every publisher.
PublisherShutdown(sent) ==
    /\ publishers' = [p \in Publishers |-> Unused]
    /\ listeners' = [p \in Publishers |-> IF publishers[p].inUse /\ sent[p] THEN Nothing ELSE listeners[p]]

Sent == [Publishers -> BOOLEAN]

PublisherNext == \/ \E txt \in Texts, sent \in BOOLEAN : Publish(txt, sent)
                 \/ \E p \in Publishers :
                       \/ \E txt \in Texts : UpdateTxtRecord(p, txt)
                       \/ \E sent \in BOOLEAN : Unpublish(p, sent)
                       \/ Answer(p)
                 \/ \E sent \in Sent : Pump(sent) \/ PublisherShutdown(sent)
                 \/ Tick

PublisherSpec == PublisherInit /\ [][PublisherNext]_publisherVars

\* The game's loop pumps, time passes, and an announcement that is tried for ever is
\* at some time sent.
PumpSends(p) == Sends(publishers[p]) /\ \E sent \in Sent : sent[p] /\ Pump(sent)

Fairness == /\ WF_publisherVars(Tick)
            /\ WF_publisherVars(\E sent \in Sent : Pump(sent))
            /\ \A p \in Publishers : SF_publisherVars(PumpSends(p))

FairSpec == PublisherSpec /\ Fairness

-----------------------------------------------------------------------------
\* A publisher waits to announce a change exactly when its text is not the one it
\* announced: not after the game put it back, and not after another announcement
\* carried it.
PendingWhenChanged ==
    \A p \in Publishers : LET pub == publishers[p]
                          IN  pub.inUse => (pub.pending <=> pub.txt # pub.announced)

\* Unless the minute is up, a change of text goes out no sooner than the interval
\* after the announcement before it, whichever of the two kinds that was.
ChangesSpaced ==
    [][\A p \in Publishers :
          LET pub == publishers[p]
          IN  /\ pub.inUse /\ pub.nextIn > 0
              /\ publishers'[p].inUse /\ publishers'[p].announced # pub.announced
              => pub.sinceLast = TxtInterval]_publisherVars

\* Listeners come to know the text the game leaves published, although the first
\* announcement may be lost, an answer may have told them of a text since put back,
\* and any send may fail.
TextReachesListeners ==
    \A p \in Publishers, txt \in Texts :
        publishers[p].txt = txt ~> listeners[p] = txt \/ publishers[p].txt # txt
=============================================================================
