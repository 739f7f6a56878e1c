------------------------------- MODULE Flags -------------------------------
(***************************************************************************)
(* util/flags.go: an array whose entries go back to a default all at once. *)
(* Each entry remembers the count of the array from when it was written;   *)
(* one with another count is taken for the default.  The count starts over *)
(* when it is past its limit, and then the entries are reset in fact.      *)
(*                                                                         *)
(* Get hands out a pointer, and writes the default into an entry that is   *)
(* out of date before it does.  Here reading leaves the array alone, as    *)
(* what is written then is what would be read anyway.                      *)
(***************************************************************************)
EXTENDS Naturals

CONSTANT MaxCount \* 4000000

Entry(data, count) == [data |-> data, count |-> count]

NewFlags(ids, default) ==
  [entries |-> [i \in ids |-> Entry(default, 0)], default |-> default, count |-> 0]

Get(flags, i) ==
  IF flags.entries[i].count = flags.count THEN flags.entries[i].data ELSE flags.default

Put(flags, i, data) == [flags EXCEPT !.entries[i] = Entry(data, flags.count)]

PutAll(flags, items) ==
  [flags EXCEPT !.entries = [i \in DOMAIN @ |->
     IF \E x \in items : x.node = i
       THEN Entry((CHOOSE x \in items : x.node = i).dist, flags.count) ELSE @[i]]]

\* Mutant: the count starts over and the entries stay.
ResetCount(flags) ==
  [flags EXCEPT !.count = IF @ + 1 > MaxCount THEN 0 ELSE @ + 1]

Reset(flags) ==
  IF flags.count + 1 > MaxCount
    THEN [flags EXCEPT !.count = 0,
                       !.entries = [i \in DOMAIN flags.entries |-> Entry(flags.default, 0)]]
    ELSE [flags EXCEPT !.count = @ + 1]
=============================================================================
