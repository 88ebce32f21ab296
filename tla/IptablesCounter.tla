--------------------------- MODULE IptablesCounter ---------------------------
(***************************************************************************)
(* The accounting rules of listener/_iptables_counter.py in one address    *)
(* family of the host's kernel.  A chain is the sequence of the packet     *)
(* counters of the rules with one comment, in the order of the table: none *)
(* normally or one, and two after a check that timed out on a rule that    *)
(* was there.  The rules outlive the listener.                             *)
(***************************************************************************)
EXTENDS Naturals, Sequences, FiniteSets

CONSTANT Families     \* iptables and ip6tables

ASSUME IptablesCounterAssumption == IsFiniteSet(Families)

(* No threshold of the responders is above two packets: two stands for two  *)
(* and more.                                                                *)
Counts == 0..2
Chains == Seq(Counts)
NoRules == [f \in Families |-> <<>>]

(* Traffic that matches ticks every rule with the comment.                  *)
Tick(chain, packets) ==
  [i \in DOMAIN chain |-> IF chain[i] + packets > 2 THEN 2 ELSE chain[i] + packets]

(* -L: the sum over the rules of the families whose listing succeeded.      *)
Total(chains, heard) ==
  LET rulesOf == UNION {{f} \X DOMAIN chains[f] : f \in heard}
      ticked == {p \in rulesOf : chains[p[1]][p[2]] > 0}
  IN  IF ticked = {} THEN 0
      ELSE IF \E p \in ticked : chains[p[1]][p[2]] = 2 \/ ticked # {p} THEN 2 ELSE 1

(* -C, then -A: the chain and whether the family is in installed_families.  *)
(* A rule that is there is kept with what it has counted.  When a call runs *)
(* into its timeout the wait ends, the subprocess does not: -A may still    *)
(* take effect, and after a -C that timed out it adds a second rule.        *)
InstallOutcomes(chain, permitted, timesOut) ==
  IF ~permitted THEN {<<chain, FALSE>>}
  ELSE IF timesOut
       THEN {<<chain, FALSE>>, <<Append(chain, 0), FALSE>>, <<Append(chain, 0), TRUE>>}
       ELSE {<<IF chain = <<>> THEN <<0>> ELSE chain, TRUE>>}

(* One outcome of each family.                                              *)
PerFamily(outcomes) ==
  {out \in [Families -> UNION {outcomes[f] : f \in Families}] :
     \A f \in Families : out[f] \in outcomes[f]}

(* -D deletes the first match.                                              *)
DeleteOne(chain) == IF chain = <<>> THEN chain ELSE Tail(chain)
=============================================================================
