--------------------------- MODULE MCPromptBudget ---------------------------
(***************************************************************************)
(* PromptBudget for TLC: every tokenizer on the texts of up to MaxParts    *)
(* parts.  With three parts, a count is the most that fits the widest      *)
(* budget of 2 tokens or one more.                                         *)
(***************************************************************************)
EXTENDS PromptBudget

CONSTANT MaxParts

Counts(n) == IF n < 3 THEN 0..3 ELSE {2, 3}

\* Without output, without room, and with room for 1 or 2 tokens.
AskBudget == {<<4, 0, 1>>, <<3, 2, 1>>, <<4, 2, 1>>, <<4, 2, 0>>}

\* Without room, without output, and with room for 2 tokens.
ChatBudget == {<<2, 2, 0>>, <<2, 0, 0>>, <<4, 2, 0>>}

Calls(kind, n, roles, budgets) ==
    {[kind |-> kind, size |-> n, role |-> r, tokens |-> t,
      context |-> b[1], reserved |-> b[2], margin |-> b[3]] :
        r \in [1..n -> roles], t \in [SUBSET (1..n) -> Counts(n)], b \in budgets}

MCCall ==
    UNION {Calls("ask", n, {"other"}, AskBudget) : n \in 1..MaxParts} \cup
    UNION {Calls("chat", n, {"system", "other"}, ChatBudget) : n \in 0..MaxParts}
=============================================================================
