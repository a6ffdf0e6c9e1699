------------------------------ MODULE MCPrimes ------------------------------
(* Ranges up to the largest number, shared by three children.              *)
EXTENDS Primes

MCInputs == {<<0, 5>>, <<-1, 3>>, <<7, 9>>}
MCMaxSignals == [single |-> 3, tree |-> 1, warmup |-> 3]
=============================================================================
