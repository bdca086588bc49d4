---------------------------- MODULE MCPackDataset ----------------------------
(* A small instance of PackDataset for TLC. *)
EXTENDS PackDataset, TLC

CONSTANTS long, mixed, chat, note, tirade

\* Two domains; the chats fit rows of 5 tokens only, and the second domain has
\* nothing else.
MCPool == <<{long, mixed, chat, note}, {tirade}>>

MCKind == (long :> "document") @@ (mixed :> "document") @@ (note :> "document")
            @@ (chat :> "messages") @@ (tirade :> "messages")

MCSizes == (long :> <<1, 9>>) @@ (mixed :> <<1, 2, 2, 1>>) @@ (note :> <<2>>)
            @@ (chat :> <<5>>) @@ (tirade :> <<5>>)

MCRecipes ==
    {[budget |-> b, length |-> l, weight |-> w, whole |-> w[1] + w[2],
      atLeast |-> 3, outOf |-> o] :
        b \in {2, 7, 12, 20}, l \in {4, 5}, w \in {<<1, 1>>, <<3, 1>>}, o \in {3, 4}}

=============================================================================
