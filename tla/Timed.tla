------------------------------- MODULE Timed -------------------------------
(***************************************************************************)
(* pkg/store/utilities/timed: a store whose items carry the second they    *)
(* were written in, and its purger (Timed.Run), which lists the items and  *)
(* then deletes those that have expired, one call after the other, while   *)
(* others write and read.                                                  *)
(*                                                                         *)
(* Ages are in whole seconds, as IsExpired compares them, and capped at    *)
(* MaxAge, from which on an item has expired.  MaxAge is the configured    *)
(* duration cut to seconds: below one second it is 0, and every item has   *)
(* expired as soon as it is written.                                       *)
(***************************************************************************)
EXTENDS Naturals

CONSTANTS Keys, MaxAge

ASSUME TimedAssumption == MaxAge \in Nat

VARIABLES
  items,   \* what the store below holds
  purger   \* the purger: what it is at and what is left of its list, with ages

timedVars == <<items, purger>>

NoItem == [val |-> "none", age |-> 0]
NewItem(v) == [val |-> v, age |-> 0]

Expired(age) == age >= MaxAge
Older(age) == IF Expired(age) THEN age ELSE age + 1
Held == {k \in Keys : items[k] # NoItem}

TimedInit ==
  /\ items = [k \in Keys |-> NoItem]
  /\ purger = [pc |-> "waits", list |-> <<>>]

\* A second passes: what the purger has listed ages as the items do, since it
\* compares timestamps.
Second ==
  /\ items' = [k \in Keys |-> IF k \in Held THEN [items[k] EXCEPT !.age = Older(@)] ELSE NoItem]
  /\ purger' = [purger EXCEPT !.list = [k \in DOMAIN @ |-> Older(@[k])]]

\* Create, Update and Apply stamp the item anew.
Write(k, v) == items' = [items EXCEPT ![k] = NewItem(v)] /\ UNCHANGED purger

\* Delete, by another user of the store.
Delete(k) ==
  /\ items[k] # NoItem
  /\ items' = [items EXCEPT ![k] = NoItem]
  /\ UNCHANGED purger

\* Slip: Read deletes an item that has expired, as a comment in it proposes.
WriteBackOrDelete(k, v) ==
  items' = [items EXCEPT ![k] = IF @ = NoItem \/ Expired(@.age) THEN NoItem ELSE NewItem(v)] /\ UNCHANGED purger

\* Read with RefreshAgeOnRead: the item read earlier is written back with a
\* new age, if the key is still there.
WriteBack(k, v) ==
  items' = [items EXCEPT ![k] = IF @ = NoItem THEN NoItem ELSE NewItem(v)] /\ UNCHANGED purger

\* The ticker fires: DeleteItemsOlderThan lists the items, if there are any.
PurgeList ==
  /\ purger.pc = "waits" /\ Held # {}
  /\ purger' = [pc |-> "purges", list |-> [k \in Held |-> items[k].age]]
  /\ UNCHANGED items

Remaining(k) ==
  LET rest == DOMAIN purger.list \ {k}
  IN  [pc |-> IF rest = {} THEN "waits" ELSE "purges", list |-> [i \in rest |-> purger.list[i]]]

\* Slip: the loop ends at the first item that has not expired.
PurgeItemBreak(k) ==
  /\ purger.pc = "purges" /\ k \in DOMAIN purger.list
  /\ IF ~Expired(purger.list[k])
     THEN purger' = [pc |-> "waits", list |-> <<>>] /\ UNCHANGED items
     ELSE /\ items' = [items EXCEPT ![k] = NoItem]
          /\ purger' = IF k \in Held THEN Remaining(k)
                       ELSE [pc |-> "failed", list |-> <<>>]

\* The next item of the list: one that has expired, by the timestamp it had
\* in the list, is deleted, whatever the key holds by now; a key that is gone
\* is an error, which ends Run.
PurgeItem(k) ==
  /\ purger.pc = "purges" /\ k \in DOMAIN purger.list
  /\ IF ~Expired(purger.list[k])
     THEN purger' = Remaining(k) /\ UNCHANGED items
     ELSE /\ items' = [items EXCEPT ![k] = NoItem]
          /\ purger' = IF k \in Held THEN Remaining(k)
                       ELSE [pc |-> "failed", list |-> <<>>]

\* The context is done when the purger next looks.
PurgeStop ==
  /\ purger.pc = "waits"
  /\ purger' = [purger EXCEPT !.pc = "stopped"]
  /\ UNCHANGED items
=============================================================================
