------------------------------- MODULE MCDma -------------------------------
(* Instances of DmaDriver for TLC. *)
EXTENDS DmaDriver

Overlap == <<0, 1, conf(2, 1, 1)>>     \* a copy that spreads its first element
LargestCount == <<3, 2, conf(0, 0, 1)>>  \* the destination wraps around
Single == <<1, 3, conf(1, 1, 0)>>

CarefulClient == [descs |-> {Overlap, LargestCount, Single}, jobs |-> 2,
                  chain |-> FALSE, abort |-> FALSE]

RashClient(chain, abort) ==
  [descs |-> {Overlap}, jobs |-> 1, chain |-> chain, abort |-> abort]

MCClients == {CarefulClient, RashClient(TRUE, TRUE)}
MCChaining == {RashClient(TRUE, FALSE)}
MCAborting == {RashClient(FALSE, TRUE)}

MCMem == [a \in Addr |-> a + 1]

=============================================================================
