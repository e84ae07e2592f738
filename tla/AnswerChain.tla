----------------------------- MODULE AnswerChain ----------------------------
(***************************************************************************)
(* What a chain of models promises about one batch of rows (docs of        *)
(* model/fallback.rs; the code is ModelCalls): the links are asked in      *)
(* order, each is asked for the rows nobody has answered yet, and a row    *)
(* that the last link cannot answer fails alone.  Positions, requests in   *)
(* flight and retries do not appear.                                       *)
(***************************************************************************)
EXTENDS Naturals

CONSTANTS Rows, Links

VARIABLES
  answer,  \* per row: 0 if open, the link that answered, or "failed"
  turn     \* the link that was asked last

ChainInit ==
  /\ answer = [r \in 1..Rows |-> 0]
  /\ turn = 0

(* The next link answers some of the open rows.                            *)
Round ==
  /\ turn < Links
  /\ turn' = turn + 1
  /\ \E some \in SUBSET {r \in 1..Rows : answer[r] = 0} :
       answer' = [r \in 1..Rows |-> IF r \in some THEN turn + 1
                                    ELSE IF answer[r] = 0 /\ turn + 1 = Links THEN Links + 1
                                    ELSE answer[r]]

ChainSpec == ChainInit /\ [][Round]_<<answer, turn>>
=============================================================================
