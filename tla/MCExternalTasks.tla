--------------------------- MODULE MCExternalTasks ---------------------------
(***************************************************************************)
(* ExternalTasks for TLC: a provider that is polled and calls back, one    *)
(* that only calls back, one that is only polled, and a synchronous call;  *)
(* the bounds are in the configurations.                                   *)
(***************************************************************************)
EXTENDS ExternalTasks

Setup(provider, url, calls, sop, limit) ==
    [provider |-> provider, url |-> url, calls |-> calls, sop |-> sop,
     limit |-> limit]

FewSetups ==
    {Setup(TRUE, TRUE, TRUE, TRUE, 1), Setup(TRUE, FALSE, TRUE, FALSE, 1),
     Setup(TRUE, TRUE, FALSE, TRUE, 2), Setup(FALSE, FALSE, FALSE, TRUE, 2)}

=============================================================================
