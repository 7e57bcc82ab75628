------------------------------ MODULE EventFeed ------------------------------
(***************************************************************************)
(* What the event journal of a session promises to those who follow it:    *)
(* events have one order; a reader sees them in that order, one at a time, *)
(* each of them once, and misses one only if it is lost and the reader was *)
(* told so.  A reader that comes back to a session may be shown the        *)
(* finished turns at once, but never an event of a turn that is still      *)
(* going on, since only handling that event answers what it may ask.       *)
(***************************************************************************)
EXTENDS Naturals, Sequences

CONSTANTS
  Reader,     \* who follows the session
  Absent      \* the position of a reader that has none

VARIABLES
  log,        \* every event ever published: its turn and whether it ends it
  kept,       \* the first event that is not lost, if there is one
  position,   \* the last event each reader is done with, or Absent
  gone        \* the reader knows that what precedes this event is lost; 0 if nothing is

feed == <<log, kept, position, gone>>

Over(t) == \E j \in DOMAIN log : log[j].turn = t /\ log[j].over

FeedInit ==
  /\ log = <<>>
  /\ kept = 1
  /\ position = [r \in Reader |-> Absent]
  /\ gone = [r \in Reader |-> 0]

\* An event is published at the end; nothing published ever changes.  What is
\* lost is lost from the front, and for good.
Publish ==
  /\ Len(log') = Len(log) + 1
  /\ SubSeq(log', 1, Len(log)) = log
  /\ kept' \in kept..(Len(log') + 1)
  /\ UNCHANGED <<position, gone>>

\* A new reader begins with something that is not lost, or at the end.
Join(r) ==
  /\ position[r] = Absent
  /\ \E n \in (kept - 1)..Len(log) : position' = [position EXCEPT ![r] = n]
  /\ gone' = [gone EXCEPT ![r] = 0]
  /\ UNCHANGED <<log, kept>>

Leave(r) ==
  /\ position' = [position EXCEPT ![r] = Absent]
  /\ gone' = [gone EXCEPT ![r] = 0]
  /\ UNCHANGED <<log, kept>>

\* Events that the reader has not seen are lost, and it is told.
Tell(r) ==
  /\ position[r] + 1 < kept /\ kept <= Len(log)
  /\ gone' = [gone EXCEPT ![r] = kept]
  /\ UNCHANGED <<log, kept, position>>

\* The reader is done with the next event, the first one that is not lost.
Advance(r) ==
  LET next == IF gone[r] > position[r] + 1 THEN gone[r] ELSE position[r] + 1 IN
  /\ next <= Len(log)
  /\ position' = [position EXCEPT ![r] = next]
  /\ gone' = [gone EXCEPT ![r] = 0]
  /\ UNCHANGED <<log, kept>>

\* What is left of the finished turns is shown at once, and that something is
\* lost may be announced with it.
Show(r) ==
  /\ \E n \in position[r]..Len(log) :
       /\ \A k \in (position[r] + 1)..n : Over(log[k].turn) \/ k < kept
       /\ position' = [position EXCEPT ![r] = n]
       /\ \E m \in {0} \cup ({kept} \cap (n + 2)..Len(log)) : gone' = [gone EXCEPT ![r] = m]
  /\ UNCHANGED <<log, kept>>

FeedNext ==
  \/ Publish
  \/ \E r \in Reader :
       \/ Join(r)
       \/ /\ position[r] # Absent
          /\ Leave(r) \/ Tell(r) \/ Advance(r) \/ Show(r)

FeedSpec == FeedInit /\ [][FeedNext]_feed

=============================================================================
