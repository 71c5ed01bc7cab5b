--------------------------- MODULE RubricCriteria ---------------------------
(***************************************************************************)
(* The criteria of a rubric version on their way into the table: the       *)
(* schema of the request body with its defaults (routes/rubrics.ts),       *)
(* assertCriteria (rubricService.ts), the row (rubricRepository.ts) and    *)
(* the constraints of rubric_criteria.                                     *)
(*                                                                         *)
(* A weight is a number of thousandths.  Labels and descriptions pass      *)
(* unchanged and are left out, and so are bodies of the wrong shape.       *)
(***************************************************************************)
EXTENDS Integers, Sequences

CONSTANTS Bodies,      \* the lists of criteria that are sent
          Keys,
          Absent,      \* a scale bound the client leaves out
          MaxInteger   \* the greatest value of a PostgreSQL integer

Scales == Int \cup {Absent}

Criteria == [key : Keys, weight : Int, scaleMin : Scales, scaleMax : Scales]

ASSUME BodiesAssumption == Bodies \subseteq Seq(Criteria)

ASSUME IntegerAssumption == MaxInteger \in Nat /\ MaxInteger >= 5 /\ Absent \notin Int

----------------------------------------------------------------------------
Parses(body) == body # <<>> /\ \A i \in DOMAIN body : body[i].weight > 0

OrDefault(bound, default) == IF bound = Absent THEN default ELSE bound

CriterionInput(c) ==
    [key |-> c.key, weight |-> c.weight,
     scaleMin |-> OrDefault(c.scaleMin, 0), scaleMax |-> OrDefault(c.scaleMax, 5)]

Parsed(body) == [i \in DOMAIN body |-> CriterionInput(body[i])]

OneRowPerKey(list) ==
    \A i, j \in DOMAIN list : list[i].key = list[j].key => i = j

\* A check that leaves duplicates to the unique index.
AssertEach(criteria) ==
    /\ criteria # <<>>
    /\ \A i \in DOMAIN criteria :
          criteria[i].scaleMin < criteria[i].scaleMax /\ criteria[i].weight > 0

AssertCriteria(criteria) ==
    /\ criteria # <<>>
    /\ OneRowPerKey(criteria)
    /\ \A i \in DOMAIN criteria :
          criteria[i].scaleMin < criteria[i].scaleMax /\ criteria[i].weight > 0

\* numeric(5, 2) rounds to the nearest hundredth, a half up.
Hundredths(weight) == (weight + 5) \div 10

Row(c) == [c EXCEPT !.weight = Hundredths(@)]

Rows(criteria) == [i \in DOMAIN criteria |-> Row(criteria[i])]

Fits(row) ==
    /\ row.weight < 100000
    /\ {row.scaleMin, row.scaleMax} \subseteq (-MaxInteger - 1)..MaxInteger

\* The columns' types and uq_criterion_key.
Insertable(rows) == OneRowPerKey(rows) /\ \A i \in DOMAIN rows : Fits(rows[i])

Answer(body) ==
    IF ~ (Parses(body) /\ AssertCriteria(Parsed(body))) THEN 400
    ELSE IF Insertable(Rows(Parsed(body))) THEN 201 ELSE 500

----------------------------------------------------------------------------
(* Properties.                                                             *)

Oversize(c) ==
    \/ c.weight >= 999995
    \/ c.scaleMin < -MaxInteger - 1
    \/ c.scaleMax > MaxInteger

\* The checks of the service and the constraints of the table agree: a list
\* that passes the checks is refused by the table only for a number that is too
\* large for its column, never for its keys.  What is stored is what was sent,
\* every weight off by half a hundredth at most, so that none overtakes another;
\* a weight that was checked to be positive may be 0 then, below 0.005.
CheckedCriteriaAreStored ==
    \A body \in Bodies :
        LET sent == Parsed(body)
            rows == Rows(sent) IN
        /\ Answer(body) = 500 => \E i \in DOMAIN sent : Oversize(sent[i])
        /\ Answer(body) = 201 =>
              /\ OneRowPerKey(rows)
              /\ \A i \in DOMAIN sent :
                    /\ ~ Oversize(sent[i])
                    /\ rows[i].scaleMin < rows[i].scaleMax
                    /\ 10 * rows[i].weight - sent[i].weight \in -4..5
                    /\ rows[i].weight = 0 <=> sent[i].weight < 5
              /\ \A i, j \in DOMAIN sent :
                    sent[i].weight <= sent[j].weight => rows[i].weight <= rows[j].weight
=============================================================================
