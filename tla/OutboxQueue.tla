---------------------------- MODULE OutboxQueue ----------------------------
(***************************************************************************)
(* The outbox queue: DurableQueue, whose work is publishing a message, and *)
(* what outbox_entries adds to it: the last_error column, kept beside the  *)
(* error history in extra_info, and the administrative transition to Dead. *)
(*                                                                         *)
(* An operator looks at a reserved row and, some time later, calls dead    *)
(* with the reservation id that was read.                                  *)
(***************************************************************************)
EXTENDS DurableQueue

VARIABLES
    last_error,  \* the column: "none" for NULL, or what was last written to it
    reason,      \* the last entry of the error history, "none" when it is empty
    operator     \* the row and the reservation the operator has read

outbox_vars == <<vars, last_error, reason, operator>>

Reasons == {"none", "failure", "timeout", "administrative"}
NothingRead == [id |-> NoItem, reservation_id |-> NoReservation]

OutboxTypeOK ==
    /\ TypeOK
    /\ last_error \in [Ids -> Reasons]
    /\ reason \in [Ids -> Reasons]
    /\ operator \in [id : Ids \cup {NoItem}, reservation_id : Nat]

OutboxInit ==
    /\ Init
    /\ last_error = [i \in Ids |-> "none"]
    /\ reason = [i \in Ids |-> "none"]
    /\ operator = NothingRead

-----------------------------------------------------------------------------
(* The rows in whose history this step wrote, and those it completed.      *)
Reported == {i \in Ids : entries'[i].errors > entries[i].errors}
Accepted ==
    {i \in Ids : entries'[i].status = "Completed" /\ entries[i].status # "Completed"}

(* Mutated form: completing a row keeps the error of an earlier attempt.  *)
TellFailureOnly ==
    /\ reason' = [i \in Ids |-> IF i \in Reported THEN "failure" ELSE reason[i]]
    /\ last_error' = [i \in Ids |->
                         IF i \in Reported THEN "failure" ELSE last_error[i]]

(* write_failure sets the column with the history, completed clears it.    *)
TellOutcome ==
    /\ reason' = [i \in Ids |-> IF i \in Reported THEN "failure" ELSE reason[i]]
    /\ last_error' = [i \in Ids |->
                         IF i \in Reported THEN "failure"
                         ELSE IF i \in Accepted THEN "none"
                         ELSE last_error[i]]

(* The sweep writes the history alone.                                     *)
TellTimeout ==
    /\ reason' = [i \in Ids |-> IF i \in Reported THEN "timeout" ELSE reason[i]]
    /\ UNCHANGED last_error

-----------------------------------------------------------------------------
(* The operator.                                                           *)

Inspect(i) ==
    /\ entries[i].status = "Reserved"
    /\ operator' = [id |-> i, reservation_id |-> entries[i].reservation_id]
    /\ UNCHANGED <<vars, last_error, reason>>

(* extra_info is read into its struct and written back: a list becomes an  *)
(* object, whether or not a reason is appended.                            *)
DeadRow(r, told) ==
    [r EXCEPT !.status = "Dead", !.reservation_id = NoReservation,
              !.reserved_for = 0, !.shape = "ok",
              !.errors = IF told THEN @ + 1 ELSE @]

(* Mutated form: dead takes the row by its key and its status alone.      *)
DeadUnowned(told) ==
    LET i == operator.id IN
    /\ i # NoItem
    /\ Unlocked(i)
    /\ operator' = NothingRead
    /\ IF entries[i].status = "Reserved"
       THEN /\ entries' = [entries EXCEPT ![i] = DeadRow(@, told)]
            /\ last_error' = [last_error EXCEPT ![i] =
                                 IF told THEN "administrative" ELSE "none"]
            /\ reason' = [reason EXCEPT ![i] = IF told THEN "administrative" ELSE @]
       ELSE UNCHANGED <<entries, last_error, reason>>
    /\ UNCHANGED <<worker, sweeper, row_lock, next_id, granted, delivered>>

(* Mutated form: dead leaves the column as it is when no reason is given. *)
DeadKeepsError(told) ==
    LET i == operator.id IN
    /\ i # NoItem
    /\ Unlocked(i)
    /\ operator' = NothingRead
    /\ IF Owned(i, operator.reservation_id)
       THEN /\ entries' = [entries EXCEPT ![i] = DeadRow(@, told)]
            /\ last_error' = [last_error EXCEPT ![i] =
                                 IF told THEN "administrative" ELSE @]
            /\ reason' = [reason EXCEPT ![i] = IF told THEN "administrative" ELSE @]
       ELSE UNCHANGED <<entries, last_error, reason>>
    /\ UNCHANGED <<worker, sweeper, row_lock, next_id, granted, delivered>>

(* dead: SELECT ... FOR UPDATE and UPDATE, both under the ownership        *)
(* predicate; it waits for a sweep that holds the row.  Without a reason   *)
(* the column is set to NULL.                                              *)
Dead(told) ==
    LET i == operator.id IN
    /\ i # NoItem
    /\ Unlocked(i)
    /\ operator' = NothingRead
    /\ IF Owned(i, operator.reservation_id)
       THEN /\ entries' = [entries EXCEPT ![i] = DeadRow(@, told)]
            /\ last_error' = [last_error EXCEPT ![i] =
                                 IF told THEN "administrative" ELSE "none"]
            /\ reason' = [reason EXCEPT ![i] = IF told THEN "administrative" ELSE @]
       ELSE UNCHANGED <<entries, last_error, reason>>
    /\ UNCHANGED <<worker, sweeper, row_lock, next_id, granted, delivered>>

-----------------------------------------------------------------------------
OutboxConsume(w) == Consume(w) /\ TellOutcome /\ UNCHANGED operator

OutboxSweep(s) == Sweep(s) /\ TellTimeout /\ UNCHANGED operator

OutboxRecord == Store /\ UNCHANGED <<last_error, reason, operator>>

OutboxTick == Tick /\ UNCHANGED <<last_error, reason, operator>>

OutboxNext ==
    \/ OutboxRecord
    \/ \E w \in Workers : OutboxConsume(w)
    \/ \E s \in Sweepers : OutboxSweep(s)
    \/ \E i \in Ids : Inspect(i)
    \/ \E told \in BOOLEAN : Dead(told)
    \/ OutboxTick

OutboxSpec == OutboxInit /\ [][OutboxNext]_outbox_vars

-----------------------------------------------------------------------------
(* Properties.                                                             *)

(* What the column says of a row agrees with its history, but for what a   *)
(* sweep did: a completed row shows no error of the attempts before, and a *)
(* failed or buried one shows the last thing that was reported of it.      *)
LastErrorAgrees ==
    \A i \in Ids :
        /\ entries[i].status = "Completed" => last_error[i] = "none"
        /\ entries[i].status = "Dead" => last_error[i] \in {"none", "administrative"}
        /\ entries[i].status = "Failed" /\ reason[i] # "timeout" =>
               last_error[i] = reason[i]

(* Every attempt of a row is accounted for: by an error, by the completion *)
(* or by the burial that gave no reason, which alone leaves a buried row   *)
(* without last_error.                                                     *)
BurialsAccounted ==
    \A i \in Ids :
        entries[i].attempts =
            entries[i].errors
            + (IF \/ entries[i].status \in {"Reserved", "Completed"}
                  \/ entries[i].status = "Dead" /\ last_error[i] = "none"
               THEN 1 ELSE 0)

(* An operator who decided on an old reservation buries nothing: the row   *)
(* that becomes Dead is still under the reservation that was looked at.    *)
BuriedAsSeen ==
    [][\A i \in Ids :
          entries[i].status # "Dead" /\ entries'[i].status = "Dead" =>
              operator.id = i /\ operator.reservation_id = granted[i]]_outbox_vars

(* A buried row stays buried, whoever was publishing it, sweeping it or    *)
(* about to record its failure.                                            *)
DeadIsFinal ==
    [][\A i \in Ids : entries[i].status = "Dead" =>
          /\ entries'[i].status = "Dead"
          /\ entries'[i].errors = entries[i].errors
          /\ last_error'[i] = last_error[i]]_outbox_vars
=============================================================================
