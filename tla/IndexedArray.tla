---------------------------- MODULE IndexedArray ----------------------------
(***************************************************************************)
(* merkle-tree/indexed/src/array.rs: the elements of an indexed Merkle     *)
(* tree, as the indexers and foresters keep them off chain.  An element    *)
(* has a value and the index of the next larger one; the largest points to *)
(* element 0.  Indices start at 0, current_node_index is the last one.     *)
(***************************************************************************)
EXTENDS Integers, FiniteSetsExt

CONSTANT HighestAddress     \* HIGHEST_ADDRESS_PLUS_ONE

IndexedElement(index, value, next_index) ==
    [index |-> index, value |-> value, next_index |-> next_index]

\* IndexedElement::hash
hash(element, next_value) ==
    [value |-> element.value, next_index |-> element.next_index, next_value |-> next_value]

Default ==
    [elements              |-> [i \in {0} |-> IndexedElement(0, 0, 0)],
     current_node_index    |-> 0,
     highest_element_index |-> 0]

NextValue(array, element) == array.elements[element.next_index].value

hash_element(array, i) == hash(array.elements[i], NextValue(array, array.elements[i]))

\* For a value that is not in the array: the first element that is smaller and
\* has a larger successor; without one, the largest element.
find_low_element_index_for_nonexistent(array, value) ==
    LET low == {i \in DOMAIN array.elements :
                    /\ array.elements[i].value < value
                    /\ NextValue(array, array.elements[i]) > value}
    IN  IF low = {} THEN array.highest_element_index ELSE Min(low)

find_low_element_for_nonexistent(array, value) ==
    array.elements[find_low_element_index_for_nonexistent(array, value)]

new_element_with_low_element_index(array, low, value) ==
    LET index == array.current_node_index + 1
        element == IndexedElement(index, value, array.elements[low].next_index)
    IN  [new_low_element        |-> [array.elements[low] EXCEPT !.next_index = index],
         new_element            |-> element,
         new_element_next_value |-> NextValue(array, element)]

\* The value lies between the low element and its successor; the callers panic
\* if it does not.
append_with_low_element_index(array, low, value) ==
    LET bundle == new_element_with_low_element_index(array, low, value)
        index == bundle.new_element.index
    IN  [elements              |-> [i \in 0 .. index |->
                                        IF i = index THEN bundle.new_element
                                        ELSE IF i = low THEN bundle.new_low_element
                                        ELSE array.elements[i]],
         current_node_index    |-> index,
         highest_element_index |-> IF array.elements[low].next_index = 0
                                   THEN index ELSE array.highest_element_index]

append(array, value) ==
    append_with_low_element_index(
        array, find_low_element_index_for_nonexistent(array, value), value)

\* init
InitArray == append(Default, HighestAddress)
=============================================================================
