--------------------------- MODULE MCUserBalance ---------------------------
(* Two submissions that the account can pay once, with a refund; exchanges, *)
(* one of a negative amount, with a submission on the account they take     *)
(* from; two notifications of an order of two products, with a submission;  *)
(* a submission on a post-paid account; a form that makes an account        *)
(* post-paid, with a submission and a deduction by hand.                    *)
EXTENDS UserBalance, TLC

CONSTANTS a, b, s1, s2, s3, refund, deduct, x1, x2, n1, n2, f
MCOpening == a :> 2 @@ b :> 0
MCThreshold == a :> 1 @@ b :> 0
MCKind == s1 :> "submit" @@ s2 :> "submit" @@ s3 :> "submit" @@ refund :> "credit"
          @@ deduct :> "credit" @@ x1 :> "exchange" @@ x2 :> "exchange"
          @@ n1 :> "notify" @@ n2 :> "notify" @@ f :> "form"
MCOf == [c \in Calls |-> IF c \in {s3, x2, n1, n2} THEN b ELSE a]
MCTo == [c \in Calls |-> IF c \in {s3, x2, n1, n2} THEN a ELSE b]
MCAmount == s1 :> 1 @@ s2 :> 2 @@ s3 :> 1 @@ refund :> 1 @@ deduct :> -1 @@ x1 :> 2
            @@ x2 :> -1 @@ n1 :> 1 @@ n2 :> 1 @@ f :> 0
MCSetting == [c \in Calls |-> "postpay"]
MCProducts == << a, b >>
MCScenarios == {{s1, s2, refund}, {s1, x1, x2}, {s1, n1, n2}, {x1, n1}, {s3, x1},
                {s2, deduct, f}}
=============================================================================
