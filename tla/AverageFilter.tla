---------------------------- MODULE AverageFilter ----------------------------
(* Libraries/Utils/Filter/avg_filter.c: the mean of the last values, kept as *)
(* a running sum over a ring.  Operators on the filter as a record.  The     *)
(* values of this program are distances, never negative, so the division     *)
(* rounds down.  Filter_Reset has no caller.                                 *)
EXTENDS Integers

CONSTANT SIZE       \* filter_size: ULT_AVG_FILTER_SIZE

ASSUME FilterAssumption == SIZE \in Nat \ {0}

Indices == 0 .. SIZE - 1

Filters(values) ==
    [buffer : [Indices -> values], next_index : Indices, data_cnt : 0 .. SIZE, sum : Nat]

Filter_Init ==
    [buffer |-> [i \in Indices |-> 0], next_index |-> 0, data_cnt |-> 0, sum |-> 0]

NextIndex(i) == (i + 1) % SIZE

\* A plausible slip: the oldest value stays in the sum.
Filter_Update_NoSubtract(filter, value) ==
    [buffer |-> [filter.buffer EXCEPT ![filter.next_index] = value],
     next_index |-> NextIndex(filter.next_index),
     data_cnt |-> IF filter.data_cnt < SIZE THEN filter.data_cnt + 1 ELSE SIZE,
     sum |-> filter.sum + value]

\* Filter_Update: the filter after it ...
Filter_Update(filter, value) ==
    LET old == IF filter.data_cnt < SIZE THEN 0 ELSE filter.buffer[filter.next_index]
    IN  [buffer |-> [filter.buffer EXCEPT ![filter.next_index] = value],
         next_index |-> NextIndex(filter.next_index),
         data_cnt |-> IF filter.data_cnt < SIZE THEN filter.data_cnt + 1 ELSE SIZE,
         sum |-> filter.sum - old + value]

\* ... and the value it returns.
Mean(filter) == filter.sum \div filter.data_cnt

=============================================================================
