---------------------------- MODULE KeyGenerator ----------------------------
(***************************************************************************)
(* The Dealer's KeyGenerator: find_combos visits every t-subset of the n   *)
(* servers and populate_omega_table writes the next key number into the    *)
(* row of each of them, at a column that has no bound check.  The call     *)
(* stack of the recursion is the variable frames.                          *)
(***************************************************************************)
EXTENDS Integers, Sequences, FiniteSets, SequencesExt

CONSTANT Deployments   \* the <<n, t>> a dist_mode stands for

ASSUME DeploymentsAssumption ==
    \A d \in Deployments : d \in Nat \X Nat /\ 1 <= d[2] /\ d[2] <= d[1]

\* Mutant: the loop stops before the last factor.
NChooseKShort(n, k) ==
    LET m == IF 2 * k > n THEN n - k ELSE k
        result[i \in 1..m] == IF i = 1 THEN n ELSE (result[i - 1] * (n - i + 1)) \div i
    IN CASE k > n -> 0
         [] k <= n /\ m = 0 -> 1
         [] k <= n /\ m # 0 -> result[IF m = 1 THEN 1 ELSE m - 1]

\* nChoosek's loop: multiply, then divide, i from 2 to the smaller k.
NChooseK(n, k) ==
    LET m == IF 2 * k > n THEN n - k ELSE k
        result[i \in 1..m] == IF i = 1 THEN n ELSE (result[i - 1] * (n - i + 1)) \div i
    IN CASE k > n -> 0
         [] k <= n /\ m = 0 -> 1
         [] k <= n /\ m # 0 -> result[m]

KeysPerMachine(n, t) == NChooseK(n - 1, t - 1)

VARIABLES n, t,             \* of the chosen deployment
          key_idx,          \* number of the next key
          omega_matrix,     \* n rows of key_count_per_machine cells, flat
          omega_col_idxs,   \* next free column of each row
          server_combo,     \* the array all calls share
          frames            \* server_num of every active find_combos, outermost first
vars == <<n, t, key_idx, omega_matrix, omega_col_idxs, server_combo, frames>>

Machines  == 0..(n - 1)
kpm       == KeysPerMachine(n, t)
key_count == (kpm * n) \div t
combo_idx == Len(frames) - 1

Init ==
    /\ \E d \in Deployments : n = d[1] /\ t = d[2]
    /\ key_idx = 0
    /\ omega_matrix = [cell \in 0..(n * kpm - 1) |-> 0]
    /\ omega_col_idxs = [s \in Machines |-> 0]
    /\ server_combo = [c \in 0..(t - 1) |-> 0]
    /\ frames = <<0>>

\* The call returns; its caller goes on with the next server.
Return == frames' = IF combo_idx = 0 THEN <<>>
                    ELSE [Front(frames) EXCEPT ![combo_idx] = @ + 1]

\* Mutants: only the number of servers left ends the loop, or one more is kept.
LoopGuardUnbounded == n - 1 - frames[combo_idx + 1] + 1 >= t - combo_idx - 1
LoopGuardEarly     == n - 1 - frames[combo_idx + 1] >= t - combo_idx

LoopGuard == /\ frames[combo_idx + 1] <= n - 1
             /\ n - 1 - frames[combo_idx + 1] + 1 >= t - combo_idx

\* Mutant: recurse from the same server instead of the next one.
TakeServerAgain ==
    /\ frames # <<>> /\ combo_idx < t /\ LoopGuard
    /\ server_combo' = [server_combo EXCEPT ![combo_idx] = frames[combo_idx + 1]]
    /\ frames' = Append(frames, frames[combo_idx + 1])
    /\ UNCHANGED <<n, t, key_idx, omega_matrix, omega_col_idxs>>

\* One round of the for loop: take server_num and recurse from the next one.
TakeServer ==
    /\ frames # <<>> /\ combo_idx < t /\ LoopGuard
    /\ server_combo' = [server_combo EXCEPT ![combo_idx] = frames[combo_idx + 1]]
    /\ frames' = Append(frames, frames[combo_idx + 1] + 1)
    /\ UNCHANGED <<n, t, key_idx, omega_matrix, omega_col_idxs>>

LeaveLoop ==
    /\ frames # <<>> /\ combo_idx < t /\ ~LoopGuard
    /\ Return
    /\ UNCHANGED <<n, t, key_idx, omega_matrix, omega_col_idxs, server_combo>>

\* populate_omega_table(server_combo, key_idx++); the servers of a combo are
\* distinct, so the order of its loop does not matter.
PopulateOmegaTable ==
    /\ frames # <<>> /\ combo_idx = t
    /\ LET combo   == {server_combo[c] : c \in 0..(t - 1)}
           cell(s) == s * kpm + omega_col_idxs[s]
       IN /\ omega_matrix' = [c \in DOMAIN omega_matrix |->
                                IF \E s \in combo : c = cell(s) THEN key_idx ELSE omega_matrix[c]]
          /\ omega_col_idxs' = [s \in Machines |-> omega_col_idxs[s] + (IF s \in combo THEN 1 ELSE 0)]
    /\ key_idx' = key_idx + 1
    /\ Return
    /\ UNCHANGED <<n, t, server_combo>>

Next == TakeServer \/ LeaveLoop \/ PopulateOmegaTable

Spec == Init /\ [][Next]_vars

-----------------------------------------------------------------------------
TypeOK ==
    /\ <<n, t>> \in Deployments
    /\ key_idx \in Nat
    /\ omega_matrix \in [0..(n * kpm - 1) -> Nat]
    /\ omega_col_idxs \in [Machines -> Nat]
    /\ server_combo \in [0..(t - 1) -> Machines]
    /\ frames \in Seq(0..n) /\ Len(frames) <= t + 1

Row(s) == {omega_matrix[s * kpm + c] : c \in 0..(omega_col_idxs[s] - 1)}

\* A row never runs into the next machine's row, or off the matrix: the column
\* counters, bounded by nothing in populate_omega_table (KeyGenerator.cpp:83),
\* stay within the count nChoosek computed.
RowsDoNotOverflow == \A s \in Machines : omega_col_idxs[s] <= kpm

\* Each key written so far is in the rows of exactly t machines, and any two
\* keys have different sets of holders.
EachKeyHasTHolders ==
    LET holders(k) == {s \in Machines : k \in Row(s)}
        written    == {holders(k) : k \in 0..(key_idx - 1)}
    IN /\ \A h \in written : Cardinality(h) = t
       /\ Cardinality(written) = key_idx

Reference(N, T) == INSTANCE Omega

\* When the search is over, every row is full and the matrix is the closed form
\* the other modules run over.
FinalMatrixIsOmega ==
    frames = <<>> =>
        /\ key_idx = key_count /\ key_count = Reference(n, t)!OmegaKeyCount
        /\ \A s \in Machines : omega_col_idxs[s] = kpm
        /\ \A combo \in Reference(n, t)!Combos :
             {s \in Machines : Reference(n, t)!KeyOf(combo) \in Row(s)} = combo

\* nChoosek, which divides before all factors are in, is the number of subsets.
NChooseKCountsSubsets ==
    frames = <<0>> => \A k \in 0..n : NChooseK(n, k) = Cardinality(Reference(n, k)!Combos)
=============================================================================
