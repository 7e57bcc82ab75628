\* Two turns with the same call id and a journal of two events: the second
\* turn evicts the first, and an oversized event evicts everything.
\* A client replies with an abort; a run's denial takes the same steps here as
\* an approval would.
CONSTANTS
  MaxTurns = 2
  MaxOutput = 1
  Call = {c1}
  Reply = {"abort"}
  Oversized = {"output"}
  MaxJournalEvents = 2
  MaxJournalBytes = 3
  None = None
  Controller = {i1}
  Headless = {h1}
SPECIFICATION FairFollowSpec
INVARIANTS FollowTypeOK  DecisionIsTheReply EndIsSeen
PROPERTIES FeedIsImplemented TurnIsWoken
CHECK_DEADLOCK FALSE
