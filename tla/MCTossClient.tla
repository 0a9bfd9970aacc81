---------------------------- MODULE MCTossClient ----------------------------
EXTENDS TossClient, TLC

CONSTANTS r, l, w1, w2, a1, pretrade, reconcile, executions, getOrders, getOrder, orders, history

\* A read of the pre-trade evidence and a lookup of a reconciliation, which
\* share a rate-limit group, and two writes that present the same
\* authorization in one workflow.
FlowOf == [c \in {r, l, w1, w2} |->
             CASE c = r -> pretrade [] c = l -> reconcile [] OTHER -> executions]
OpOf == [c \in {r, l, w1, w2} |-> CASE c = r -> getOrders [] c = l -> getOrder [] OTHER -> orders]
GroupOf == [c \in {r, l, w1, w2} |-> IF c \in {r, l} THEN history ELSE orders]
AuthorizationOf == [c \in {w1, w2} |-> a1]

Symmetry == Permutations({w1, w2})
=============================================================================
