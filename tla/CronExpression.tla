--------------------------- MODULE CronExpression ---------------------------
(***************************************************************************)
(* The cron expressions of jobs.toml and the two programs that read them:  *)
(* sync_jobs.py checks an expression before it writes it to D1, the Worker *)
(* parses what it finds in D1 every minute, and passes over a row it       *)
(* cannot parse.                                                           *)
(*                                                                         *)
(* A field is a list of tokens.  A token is "*", a value or a range, with  *)
(* or without a step; names of days and months are their numbers.  Only    *)
(* the two day fields are kept: they are the ones that interact, and       *)
(* day-of-week is the one with a special value.                            *)
(*                                                                         *)
(* A number is kept with the programs that can read it as written: the     *)
(* sync reads with Python's int(), the Worker with JavaScript's Number().  *)
(* Plain digits are read by both, 1_0 by the first alone, 0x10, 1e1 and    *)
(* 5.0 by the second alone, 5.5 by neither.                                *)
(***************************************************************************)
EXTENDS Integers, Sequences

Sync == "sync_jobs.py"
Worker == "worker.mjs"

CONSTANTS
    DomNumbers, DowNumbers, \* numbers an editor may write
    StepNumbers,            \* steps an editor may write
    NoStep,                 \* no step is written
    MaxTokens,              \* tokens in a day-of-week list
    Dates                   \* days of the month to try

ASSUME NumbersAssumption ==
    /\ DomNumbers \cup DowNumbers \cup StepNumbers
            \subseteq [n : Int, readers : SUBSET {Sync, Worker}]
    /\ NoStep \notin StepNumbers

Tokens(numbers) ==
    LET steps == StepNumbers \cup {NoStep}
    IN       [shape : {"*"}, step : steps]
        \cup [shape : {"one"}, lo : numbers, step : steps]
        \cup [shape : {"range"}, lo : numbers, hi : numbers, step : steps]

VARIABLES
    dom, dow        \* the day-of-month and day-of-week fields of a job

TokensOf(list) == {list[i] : i \in DOMAIN list}

Star(token) == token.shape = "*" /\ token.step = NoStep

DomField == [day |-> "day-of-month", min |-> 1, max |-> 31]
DowField == [day |-> "day-of-week", min |-> 0, max |-> 7]

-----------------------------------------------------------------------------
(***************************************************************************)
(* The Worker: normalizeCronAtom, expandCronToken, parseCronField,         *)
(* cronMatchesDate.                                                        *)
(***************************************************************************)
(* Day 7 is Sunday, day 0.                                                 *)
SundayIsZero(n, field) == IF field.day = "day-of-week" /\ n = 7 THEN 0 ELSE n

Atom(number, field) == SundayIsZero(number.n, field)

AtomAdmitted(number, field) ==
    /\ Worker \in number.readers
    /\ field.min <= number.n /\ number.n <= field.max

StepAdmitted(step) == Worker \in step.readers /\ step.n > 0

RangeStart(token, field) ==
    IF token.shape = "*" THEN field.min ELSE Atom(token.lo, field)

(* Mutated form: the end of a range keeps its 7.                           *)
RangeEndAsWritten(token, field) ==
    CASE token.shape = "*"     -> field.max
      [] token.shape = "one"   -> RangeStart(token, field)
      [] token.shape = "range" -> token.hi.n

RangeEnd(token, field) ==
    CASE token.shape = "*"     -> field.max
      [] token.shape = "one"   -> RangeStart(token, field)
      [] token.shape = "range" -> Atom(token.hi, field)

TokenParses(token, field) ==
    /\ token.step # NoStep => StepAdmitted(token.step)
    /\ token.shape # "*" => AtomAdmitted(token.lo, field)
    /\ token.shape = "range" => AtomAdmitted(token.hi, field)
    /\ RangeStart(token, field) <= RangeEnd(token, field)

Stride(token) == IF token.step = NoStep THEN 1 ELSE token.step.n

Values(token, field) ==
    {SundayIsZero(n, field) : n \in
        {m \in RangeStart(token, field) .. RangeEnd(token, field) :
            (m - RangeStart(token, field)) % Stride(token) = 0}}

Parses(list, field) == \A token \in TokensOf(list) : TokenParses(token, field)

(* Only a bare "*" is any; "*/1" names every value but restricts.          *)
Any(list) == Len(list) = 1 /\ Star(list[1])

FieldMatches(list, field, n) ==
    Any(list) \/ \E token \in TokensOf(list) : n \in Values(token, field)

DayMatches(date, weekday) ==
    LET domMatches == FieldMatches(dom, DomField, date)
        dowMatches == FieldMatches(dow, DowField, weekday)
    IN  IF Any(dom) \/ Any(dow)
        THEN domMatches /\ dowMatches
        ELSE domMatches \/ dowMatches

WorkerParses == Parses(dom, DomField) /\ Parses(dow, DowField)

-----------------------------------------------------------------------------
(***************************************************************************)
(* sync_jobs.py: normalize_cron_atom, expand_cron_token.                   *)
(***************************************************************************)
SyncAtom(number, field) ==
    IF field.day = "day-of-week" /\ number.n = 7 THEN 0 ELSE number.n

SyncAdmits(number, field) ==
    Sync \in number.readers /\ number.n \in field.min .. field.max

SyncTokenAccepted(token, field) ==
    /\ token.step = NoStep \/ (Sync \in token.step.readers /\ token.step.n > 0)
    /\ CASE token.shape = "*"   -> TRUE
         [] token.shape = "one" -> SyncAdmits(token.lo, field)
         [] token.shape = "range" ->
              /\ SyncAdmits(token.lo, field) /\ SyncAdmits(token.hi, field)
              /\ SyncAtom(token.lo, field) <= SyncAtom(token.hi, field)

(* The numbers its loop over a token's range goes through.                 *)
SyncRange(token, field) ==
    LET start == IF token.shape = "*" THEN field.min ELSE SyncAtom(token.lo, field)
        end == CASE token.shape = "*"     -> field.max
                 [] token.shape = "one"   -> start
                 [] token.shape = "range" -> SyncAtom(token.hi, field)
    IN  {m \in start .. end : (m - start) % Stride(token) = 0}

SyncAccepts ==
    /\ \A token \in TokensOf(dom) : SyncTokenAccepted(token, DomField)
    /\ \A token \in TokensOf(dow) : SyncTokenAccepted(token, DowField)

-----------------------------------------------------------------------------
InitialExpression ==
    /\ dom \in {<<token>> : token \in Tokens(DomNumbers)}
    /\ dow \in {<<token>> : token \in Tokens(DowNumbers)}

(* Someone adds a token to the list of weekdays.                           *)
EditExpression ==
    /\ Len(dow) < MaxTokens
    /\ \E token \in Tokens(DowNumbers) : dow' = Append(dow, token)
    /\ UNCHANGED dom

ExpressionSpec == InitialExpression /\ [][EditExpression]_<<dom, dow>>

-----------------------------------------------------------------------------
(***************************************************************************)
(* Properties.                                                             *)
(***************************************************************************)
(* Every number of the token is written so that both programs read it, or  *)
(* neither does.                                                           *)
ReadAlike(token) ==
    LET numbers == (IF token.step = NoStep THEN {} ELSE {token.step})
              \cup (IF token.shape = "*" THEN {} ELSE {token.lo})
              \cup (IF token.shape = "range" THEN {token.hi} ELSE {})
    IN  \A number \in numbers : Sync \in number.readers <=> Worker \in number.readers

(* Day n is among those the sync has read in the list; a weekday 7 is a    *)
(* Sunday.                                                                 *)
Named(list, field, n) ==
    \E token \in TokensOf(list) : \E m \in SyncRange(token, field) : n = SundayIsZero(m, field)

(* Written with numbers both programs read, an expression the sync lets    *)
(* into D1 is one the Worker can run, not one it passes over for ever, and *)
(* none is refused that would run.  However its numbers are written, an    *)
(* expression both accept runs on the days the sync has read in its        *)
(* restricted field, and on those of either field when both are            *)
(* restricted.                                                             *)
SyncedExpressionsRun ==
    /\ (\A token \in TokensOf(dom) \cup TokensOf(dow) : ReadAlike(token))
            => (SyncAccepts <=> WorkerParses)
    /\ SyncAccepts /\ WorkerParses =>
        \A date \in Dates, weekday \in 0 .. 6 :
            DayMatches(date, weekday) <=>
                \/ Any(dom) /\ Any(dow)
                \/ ~Any(dom) /\ Named(dom, DomField, date)
                \/ ~Any(dow) /\ Named(dow, DowField, weekday)
=============================================================================
