-------------------------------- MODULE Lists --------------------------------
(***************************************************************************)
(* Lists without some of their elements.  The result is SelectSeq's, which *)
(* the proof system knows nothing of; this is its recursion spelt out.     *)
(***************************************************************************)
EXTENDS Integers, SequencesExt

(* s without the elements in gone, the others in their order.              *)
Without(s, gone) ==
    LET kept[n \in 0..Len(s)] ==
            IF n = 0 THEN <<>>
            ELSE IF s[n] \in gone THEN kept[n - 1]
            ELSE Append(kept[n - 1], s[n])
    IN  kept[Len(s)]

(* The elements of s that are wanted, in their order.                      *)
Only(s, wanted) == Without(s, ToSet(s) \ wanted)

(* Those that pass a test.                                                 *)
Where(s, Test(_)) == Only(s, {e \in ToSet(s) : Test(e)})

=============================================================================
