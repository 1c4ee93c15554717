----------------------------- MODULE VbContract -----------------------------
(***************************************************************************)
(* What the consumers promise about one vbucket, whatever their goroutines *)
(* do: it has at most one owner, it changes hands only by way of having    *)
(* none, and a checkpoint never covers a mutation that no handler was given*)
(* (a document is seen at least once).  VbOwnership implements this.       *)
(***************************************************************************)
EXTENDS Integers

CONSTANTS Owners, NoOwner, MaxSeq, Muts

VARIABLES
  owner,       \* the consumer that owns the vbucket
  begun,       \* the mutations that were handed to a handler
  checkpoint   \* the sequence number the next stream starts from

vars == <<owner, begun, checkpoint>>

Init == owner \in Owners \cup {NoOwner} /\ begun = {} /\ checkpoint = 0

Take(c) == owner = NoOwner /\ owner' = c /\ UNCHANGED <<begun, checkpoint>>

Begin(s) == begun' = begun \cup {s} /\ UNCHANGED <<owner, checkpoint>>

Save(n) ==
  /\ \A s \in Muts : s <= n => s \in begun
  /\ checkpoint' = n
  /\ owner' \in {owner, NoOwner}
  /\ UNCHANGED begun

Next ==
  \/ \E c \in Owners : Take(c)
  \/ \E s \in Muts : Begin(s)
  \/ \E n \in 0..MaxSeq : Save(n)

Spec == Init /\ [][Next]_vars
=============================================================================
