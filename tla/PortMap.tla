------------------------------ MODULE PortMap ------------------------------
(***************************************************************************)
(* What the hash table of vhash.c promises: per module a partial function  *)
(* from keys to values, or no table at all.  A call reports a code, the    *)
(* entry it gives a handle on (here its module and key), and numbers.      *)
(*                                                                         *)
(* This is the abstract specification that VHash is compared with.         *)
(***************************************************************************)
EXTENDS Integers, Sequences, FiniteSets, Functions

CONSTANTS Ids, Keys, Vals,
          ZeroVal,  \* the value of a new entry
          NoTable,  \* the module has no table
          NoEntry,  \* the call gave no handle
          Codes     \* what calls return

VARIABLES dict,  \* Ids -> NoTable or a partial function Keys -> Vals
          got    \* what the latest call was about and what it gave

pvars == <<dict, got>>

Empty == [k \in {} |-> ZeroVal]
Gives(of, ret, entry, nums) ==
  got' = [of |-> of, ret |-> ret, entry |-> entry, nums |-> nums]

PInit ==
  /\ dict = [m \in Ids |-> NoTable]
  /\ got = [of |-> NoEntry, ret |-> 0, entry |-> NoEntry, nums |-> << >>]

\* A call about no key only reports a code.
Report(ret) == Gives(NoEntry, ret, NoEntry, << >>) /\ UNCHANGED dict

\* A call about a key fails: VHASH_ERR or VHASH_NOT_INNIF.
Failed(m, k, ret) ==
  /\ ret \in {1, 2}
  /\ Gives(<<m, k>>, ret, NoEntry, << >>)
  /\ UNCHANGED dict

\* The table of m is made, emptied or removed.
Reset(m, new) ==
  /\ new \in {NoTable, Empty}
  /\ dict' = [dict EXCEPT ![m] = new]
  /\ Gives(NoEntry, 0, NoEntry, << >>)

Has(m, k) == dict[m] # NoTable /\ k \in DOMAIN dict[m]
Lacks(m, k) == dict[m] # NoTable /\ k \notin DOMAIN dict[m]

\* The call gives the entry of the key it was about: VHASH_OK or UPDATE_OK.
Find(m, k) ==
  /\ Has(m, k)
  /\ \E ret \in {0, 6} : Gives(<<m, k>>, ret, <<m, k>>, << >>)
  /\ UNCHANGED dict

Add(m, k) ==
  /\ Lacks(m, k)
  /\ dict' = [dict EXCEPT ![m] = [j \in DOMAIN dict[m] \cup {k} |->
                                    IF j = k THEN ZeroVal ELSE dict[m][j]]]
  /\ Gives(<<m, k>>, 0, <<m, k>>, << >>)

Delete(m, k) ==
  /\ Has(m, k)
  /\ dict' = [dict EXCEPT ![m] = Restrict(@, DOMAIN @ \ {k})]
  /\ Gives(<<m, k>>, 0, NoEntry, << >>)

\* A key is said to be absent (NOT_FOUND) or present (EXIST) only if it is.
Verdict(m, k) ==
  /\ \/ Lacks(m, k) /\ Gives(<<m, k>>, 3, NoEntry, << >>)
     \/ Has(m, k) /\ Gives(<<m, k>>, 4, NoEntry, << >>)
  /\ UNCHANGED dict

\* An enumeration gives some entry.
Step(m, k) ==
  /\ Has(m, k)
  /\ Gives(NoEntry, 0, <<m, k>>, << >>)
  /\ UNCHANGED dict

\* The caller writes the entry it has a handle on.
Write(m, k, v) ==
  /\ got.entry = <<m, k>>
  /\ Has(m, k)
  /\ dict' = [dict EXCEPT ![m][k] = v]
  /\ UNCHANGED got

\* How many entries there are, in all or bucket by bucket: each is counted
\* in one of the numbers.
Count(m, nums) ==
  /\ dict[m] # NoTable
  /\ \E counted \in [DOMAIN dict[m] -> DOMAIN nums] :
       \A i \in DOMAIN nums :
         nums[i] = Cardinality({k \in DOMAIN dict[m] : counted[k] = i})
  /\ Gives(NoEntry, 0, NoEntry, nums)
  /\ UNCHANGED dict

PNext ==
  \/ \E ret \in Codes : Report(ret)
  \/ \E m \in Ids :
       \/ \E new \in {NoTable, Empty} : Reset(m, new)
       \/ \E k \in Keys :
            \/ Find(m, k) \/ Add(m, k) \/ Delete(m, k)
            \/ Verdict(m, k) \/ Step(m, k)
            \/ \E ret \in Codes : Failed(m, k, ret)
            \/ \E v \in Vals : Write(m, k, v)
       \/ Count(m, got'.nums)

PSpec == PInit /\ [][PNext]_pvars
=============================================================================
