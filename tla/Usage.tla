-------------------------------- MODULE Usage -------------------------------
(***************************************************************************)
(* The usage file (usage_tracker.py) and the credits that are estimated    *)
(* for a chat run (copilot_pricing.py): what the steps of a run cost       *)
(* together, the rows that are appended, a row that is cut short by a      *)
(* crash or a full disk, and the summary that reads them back.             *)
(*                                                                         *)
(* Tokens and prices are small numbers; the rounding of a price to the     *)
(* hundredth of a credit is left out.  Reasoning counts as output.         *)
(***************************************************************************)
EXTENDS Integers, Sequences, SequencesExt, FiniteSetsExt, Tally

CONSTANTS
  Runs,      \* the messages that a chat run may have, in order
  NoTokens,  \* a message that books none
  Priced,    \* the models of COPILOT_MODEL_PRICING
  Unpriced,  \* a model that it does not have
  Pricing,   \* of a priced model: its threshold and the prices of its tiers
  Cut,       \* a line that is no row
  MaxDay,    \* bound on the days
  MaxLines   \* bound on the lines of the file

Prices == [input : Nat, cached : Nat, written : Nat, output : Nat]

\* What a message books: OpenCode's tokens and cost.
MessageTokens == [fresh : Nat, read : Nat, write : Nat, output : Nat, cost : Nat]

Usages == [input : Nat, cached : Nat, written : Nat, output : Nat, cost : Nat]

UsageRows == [day : Nat, model : Priced \cup {Unpriced}, messages : Nat, steps : Seq(Usages),
              usage : Usages, credits : Int, cost : Nat]

\* No price of COPILOT_MODEL_PRICING is lower over the threshold.
ASSUME UsageAssumption ==
  /\ Runs \subseteq Seq(MessageTokens \cup {NoTokens}) /\ NoTokens \notin MessageTokens
  /\ Unpriced \notin Priced
  /\ \A m \in Priced :
       /\ Pricing[m].threshold \in Nat
       /\ Pricing[m].default \in Prices /\ Pricing[m].long \in Prices
       /\ \A what \in DOMAIN Pricing[m].default : Pricing[m].default[what] <= Pricing[m].long[what]
  /\ Cut \notin UsageRows
  /\ MaxDay \in Nat /\ MaxLines \in Nat

VARIABLES
  day,    \* the date
  lines,  \* the lines of usage_file
  open,   \* the last one has no end
  booked  \* the rows that were appended whole, each on a line of its own

usageVars == <<day, lines, open, booked>>

UsageInit ==
  /\ day = 0
  /\ lines = <<>> /\ open = FALSE
  /\ booked = <<>>

-----------------------------------------------------------------------------
(* What a run used *)

\* _usage_from_tokens: OpenCode's input is without the tokens of the cache.
FromTokens(t) ==
  [input |-> t.fresh + t.read + t.write, cached |-> t.read, written |-> t.write,
   output |-> t.output, cost |-> t.cost]

\* _usage_from_message, of the messages that book any.
StepUsages(messages) ==
  LET booking == Kept(messages, Range(messages) \ {NoTokens})
  IN  [i \in DOMAIN booking |-> FromTokens(booking[i])]

\* _sum_usage
Summed(steps) ==
  LET Of(field) == SumOf([i \in DOMAIN steps |-> steps[i][field]])
  IN  [input |-> Of("input"), cached |-> Of("cached"), written |-> Of("written"),
       output |-> Of("output"), cost |-> Of("cost")]

\* _extract_usage: of the latest message that books any.
LatestUsage(steps) == IF steps = <<>> THEN Summed(<<>>) ELSE Last(steps)

\* Mutant: the steps are taken for one request.
WholePrompt(steps) == Summed(steps).input

\* record_chat: the prompt of the largest request.
LargestPrompt(steps) == Max({steps[i].input : i \in DOMAIN steps})

-----------------------------------------------------------------------------
(* What it costs *)

\* ModelPricing.tier_for
Tier(model, prompt) == IF prompt > Pricing[model].threshold THEN "long" ELSE "default"

\* usd_for: the cached part and the written part of a prompt are no more than the prompt.
Usd(model, usage, tier) ==
  LET price == Pricing[model][tier]
      cached == Min({usage.cached, usage.input})
      written == Min({usage.written, usage.input - cached})
  IN  (usage.input - cached - written) * price.input + cached * price.cached
      + written * price.written + usage.output * price.output

\* estimate_usage_credits: -1 for a model without a price.
Credits(model, usage, prompt) ==
  IF model \notin Priced THEN -1 ELSE Usd(model, usage, Tier(model, prompt))

\* _write_row: a reported cost goes before the estimate.
Row(model, messages, steps, usage, prompt) ==
  LET credits == Credits(model, usage, prompt)
  IN  [day |-> day, model |-> model, messages |-> messages, steps |-> steps, usage |-> usage,
       credits |-> credits,
       cost |-> IF usage.cost > 0 THEN usage.cost ELSE Max({0, credits})]

-----------------------------------------------------------------------------
(* The file *)

\* The row and the end of its line; behind a line that was cut it is part of that line.
Appended(row) ==
  /\ lines' = IF open THEN [lines EXCEPT ![Len(lines)] = Cut] ELSE Append(lines, row)
  /\ booked' = IF open THEN booked ELSE Append(booked, row)
  /\ open' = FALSE

\* Only a part of it; the row may be whole and lack the end.
PartlyAppended(row) ==
  /\ \E line \in {Cut, row} :
       lines' = IF open THEN [lines EXCEPT ![Len(lines)] = Cut] ELSE Append(lines, line)
  /\ open' = TRUE
  /\ UNCHANGED booked

WriteRow(row) == (Appended(row) \/ PartlyAppended(row)) /\ UNCHANGED day

Room == Len(lines) < MaxLines

\* A chat run whose messages were listed: the sum of its steps, at the tier of the largest.
RecordChat(model, messages) ==
  /\ Room
  /\ StepUsages(messages) # <<>>
  /\ LET steps == StepUsages(messages)
     IN  WriteRow(Row(model, 2, steps, Summed(steps), LargestPrompt(steps)))

\* One whose messages could not be listed, or book nothing: what the reply says.
RecordReply(model, messages) ==
  /\ Room
  /\ LET usage == LatestUsage(StepUsages(messages))
     IN  WriteRow(Row(model, 2, <<usage>>, usage, usage.input))

\* The call that makes a title: a request without messages.
RecordSessionTitle(model, messages) ==
  /\ Room
  /\ LET usage == LatestUsage(StepUsages(messages))
     IN  WriteRow(Row(model, 0, <<usage>>, usage, usage.input))

NextDay ==
  /\ day < MaxDay
  /\ day' = day + 1
  /\ UNCHANGED <<lines, open, booked>>

UsageNext ==
  \/ NextDay
  \/ \E model \in Priced \cup {Unpriced}, messages \in Runs :
       \/ RecordChat(model, messages)
       \/ RecordReply(model, messages)
       \/ RecordSessionTitle(model, messages)

UsageSpec == UsageInit /\ [][UsageNext]_usageVars

-----------------------------------------------------------------------------
(* The summary *)

\* Mutant: reading ends where it fails.
ReadableUntilCut ==
  LET cuts == {i \in DOMAIN lines : lines[i] = Cut}
  IN  IF cuts = {} THEN lines ELSE SubSeq(lines, 1, Min(cuts) - 1)

\* A line that is no row is passed over.
Readable == Kept(lines, Range(lines) \ {Cut})

InPeriod(rows, days) == Kept(rows, {r \in Range(rows) : r.day >= day - days})

Totals(rows) ==
  LET Of(Field(_)) == SumOf([i \in DOMAIN rows |-> Field(rows[i])])
  IN  [requests |-> Len(rows),
       messages |-> Of(LAMBDA r : r.messages),
       input |-> Of(LAMBDA r : r.usage.input),
       output |-> Of(LAMBDA r : r.usage.output),
       cost |-> Of(LAMBDA r : r.cost),
       credits |-> Of(LAMBDA r : Max({0, r.credits})),
       estimated |-> Len(Kept(rows, {r \in Range(rows) : r.credits >= 0}))]

\* summarize, for the days that a query asks for.
Summarize(days) ==
  LET rows == InPeriod(Readable, days)
  IN  [global |-> Totals(rows),
       byModel |-> [m \in {r.model : r \in Range(rows)} |->
                      Totals(Kept(rows, {r \in Range(rows) : r.model = m}))]]

-----------------------------------------------------------------------------
(* Properties *)

\* The steps of a run are priced together as they are one by one as long as none of them is
\* over the threshold, however many there are and whatever they cached; otherwise for no
\* less than that, and for no more than all of them would cost over it.
PricedByItsSteps ==
  \A i \in DOMAIN booked :
    LET r == booked[i]
        OneByOne == SumOf([s \in DOMAIN r.steps |->
                             Credits(r.model, r.steps[s], r.steps[s].input)])
        AllLong == SumOf([s \in DOMAIN r.steps |-> Usd(r.model, r.steps[s], "long")])
        short == \A s \in DOMAIN r.steps : r.steps[s].input <= Pricing[r.model].threshold
    IN  r.model \in Priced
          => IF short THEN r.credits = OneByOne
             ELSE OneByOne <= r.credits /\ r.credits <= AllLong

\* Every row that was written whole is in the summary of its period, whatever a crash has
\* left before it, and once; no more than a row whose end is missing comes besides.
EachRowCounted ==
  lines # <<>> => \A days \in 0 .. MaxDay :
    LET rows == InPeriod(booked, days)
        sum == Summarize(days)
        more == sum.global.requests - Len(rows)
    IN  /\ more \in {0, IF open THEN 1 ELSE 0}
        /\ more = 0 => sum.global = Totals(rows)
        /\ sum.global.credits =
             SumOf([m \in DOMAIN sum.byModel |-> sum.byModel[m].credits])

=============================================================================
