----------------------------- MODULE MCEnqueue -----------------------------
(* Enqueue for TLC: requests that differ in one respect each. *)
EXTENDS Enqueue

CONSTANTS c1, c2

TwoCalls == {c1, c2}
OneId    == { <<3>> }
TwoIds   == { <<3>>, <<4>> }
BlankId  == { <<Space>> }
FewIds   == TwoIds \cup BlankId

Tool == [i \in 1..7 |-> IF i \in Required THEN <<3>> ELSE << >>]

Body(subject, actions) == [subject |-> subject, actions |-> actions, fixtures |-> <<4>>]

\* Two actions in either order, and as one action with a comma.
ValidBodies ==
  { Body(Tool, << <<3>>, <<4>> >>),
    Body(Tool, << <<4>>, <<3>> >>),
    Body(Tool, << <<3, Comma, 4>> >>) }

\* No action, a blank action and a blank tool name.
InvalidBodies ==
  { Body(Tool, << >>),
    Body(Tool, << <<3>>, <<Space>> >>),
    Body([Tool EXCEPT ![5] = <<Space>>], << <<3>> >>) }

PlainBodies == ValidBodies \cup InvalidBodies

PlainRequests ==
  (TwoIds \X ValidBodies) \cup (OneId \X InvalidBodies)
    \cup (BlankId \X { Body(Tool, << <<3>>, <<4>> >>) })

\* An action listed once and twice.
RepeatBodies == { Body(Tool, << <<3>> >>), Body(Tool, << <<3>>, <<3>> >>) }

\* Two actions, and one action with a NUL.
NulBodies == { Body(Tool, << <<3>>, <<4>> >>), Body(Tool, << <<3, Nul, 4>> >>) }

RepeatRequests == OneId \X RepeatBodies
NulRequests    == OneId \X NulBodies
=============================================================================
