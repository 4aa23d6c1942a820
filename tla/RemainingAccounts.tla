------------------------- MODULE RemainingAccounts -------------------------
(***************************************************************************)
(* How the clients pack instruction data: an account is named by its index *)
(* in a list of remaining accounts, to which a key is added when it is met *)
(* first.                                                                  *)
(***************************************************************************)
EXTENDS Sequences, SequencesExt

\* getIndexOrAdd: the list after the key has been looked up
getIndexOrAdd(accs, key) == IF Contains(accs, key) THEN accs ELSE Append(accs, key)

\* The position a key was given.
IndexOf(accs, key) == SelectInSeq(accs, LAMBDA k : k = key)

\* The list after all keys have been looked up in turn.
AddAll(accs, keys) == FoldLeft(getIndexOrAdd, accs, keys)
=============================================================================
