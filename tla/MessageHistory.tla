--------------------------- MODULE MessageHistory ---------------------------
(***************************************************************************)
(* How a scan reads one chat (services/whatsapp_browser.py).  WhatsApp     *)
(* renders a window of Rows messages.  The scraper reads the window,       *)
(* scrolls up by less than its height and merges what is new in front of   *)
(* what it has, until it sees the message of the last checkpoint, has      *)
(* enough, or gets no further.  A message is its position in the chat; the *)
(* chat may grow meanwhile.  WhatsAppScan takes the result as one step.    *)
(***************************************************************************)
EXTENDS Integers, Sequences, SequencesExt, FiniteSetsExt

CONSTANTS Rows,         \* messages rendered at a time
          Stride,       \* messages a scroll moves by
          MaxTail,      \* bound: messages in the chat
          MaxArrivals,  \* bound: messages that arrive during the reading
          MaxLimit,     \* bound: latest_messages_limit
          WordlessRuns  \* TRUE: a window may show nothing that can be read

ASSUME HistoryAssumption ==
    /\ Rows \in Nat /\ Stride \in 1..(Rows - 1) /\ MaxTail \in Nat
    /\ MaxArrivals \in Nat /\ MaxLimit \in Nat \ {0}
    /\ WordlessRuns \in BOOLEAN

VARIABLES tail,      \* the messages of the chat are 1..tail
          mark,      \* the message of the last checkpoint, 0 for none
          wordless,  \* messages with neither text nor image
          limit,     \* latest_messages_limit
          pane,      \* lo, hi: the rows on the page; bottom: not scrolled yet
          found,     \* ordered_records, the oldest first
          rounds,    \* scrolls so far
          reader,    \* where the scraper is
          comings    \* messages that arrived since it began

historyVars == <<tail, mark, wordless, limit, pane, found, rounds, reader,
                 comings>>

At(lo)    == [lo |-> lo, hi |-> Min({lo + Rows - 1, tail}), bottom |-> FALSE]
AtBottom(n) == [lo |-> Max({1, n - Rows + 1}), hi |-> n, bottom |-> TRUE]

\* Between messages without words there are enough others for every step of
\* the scroll to show one, also when messages arrive meanwhile.
Spread(S) ==
    \A i, j \in S : i = j \/ Max({i - j, j - i}) >= Stride - MaxArrivals

HistoryInit ==
    /\ tail \in 0..(MaxTail - MaxArrivals)
    /\ mark \in 0..tail
    /\ wordless \in SUBSET (1..tail \ {mark})
    /\ WordlessRuns \/ Spread(wordless)
    /\ limit \in 1..MaxLimit
    /\ pane = AtBottom(tail)
    /\ found = <<>> /\ rounds = 0 /\ reader = "wait" /\ comings = 0

HistoryFrame == UNCHANGED <<tail, mark, wordless, limit, comings>>

\* _query_message_containers: one element for each rendered message.
OnPage == pane.lo .. pane.hi

InOrder(S) ==
    CHOOSE s \in [1..Cardinality(S) -> S] :
        \A i, j \in 1..Cardinality(S) : i < j => s[i] < s[j]

\* _extract_message_container: nothing of a message without text and image.
NewOnPage == {k \in OnPage \ wordless : ~Contains(found, k)}
Fresh     == InOrder(NewOnPage)

MarkVisible == mark # 0 /\ mark \in OnPage
MaxRounds   == Min({40, Max({4, limit + 2})})
Enough      == MarkVisible \/ Len(found) >= limit \/ rounds = MaxRounds

\* No message is rendered within the time the scraper waits.
NothingRendered ==
    /\ reader = "wait"
    /\ reader' = "done"
    /\ UNCHANGED <<pane, found, rounds>> /\ HistoryFrame

ReadWindow ==
    /\ reader = "wait" /\ OnPage # {}
    /\ found' = Fresh
    /\ reader' = "look"
    /\ UNCHANGED <<pane, rounds>> /\ HistoryFrame

\* At least one row of the old window stays on the page.
MutScrolled == Max({1, pane.lo - Rows - 1})
Scrolled == Max({1, pane.lo - Stride})

ScrollUp ==
    /\ reader = "look" /\ ~Enough
    /\ pane.lo > 1
    /\ pane' = At(Scrolled)
    /\ reader' = "read"
    /\ UNCHANGED <<found, rounds>> /\ HistoryFrame

\* What is new goes in front, whatever its place on the page.  A window that
\* adds nothing, or shows the mark, is the last one.
ReadOlder ==
    /\ reader = "read"
    /\ found' = Fresh \o found
    /\ rounds' = rounds + 1
    /\ reader' = IF MarkVisible \/ Fresh = <<>> THEN "cut" ELSE "look"
    /\ UNCHANGED pane /\ HistoryFrame

LookEnds ==
    /\ reader = "look"
    /\ Enough \/ pane.lo = 1
    /\ reader' = "cut"
    /\ UNCHANGED <<pane, found, rounds>> /\ HistoryFrame

AfterMark == SubSeq(found, IF Contains(found, mark)
                           THEN SelectInSeq(found, LAMBDA k : k = mark) + 1
                           ELSE 1, Len(found))
NewestOf(s) == SubSeq(s, Max({1, Len(s) - limit + 1}), Len(s))

\* From here on found is what the scraper returns, the newest first.
Cut ==
    /\ reader = "cut"
    /\ found' = Reverse(NewestOf(AfterMark))
    /\ reader' = "done"
    /\ UNCHANGED <<pane, rounds>> /\ HistoryFrame

\* A page that has not been scrolled follows the chat.
MessageComes ==
    /\ reader # "done" /\ comings < MaxArrivals
    /\ comings' = comings + 1
    /\ tail' = tail + 1
    /\ pane' = IF pane.bottom THEN AtBottom(tail + 1) ELSE pane
    /\ UNCHANGED <<mark, wordless, limit, found, rounds, reader>>

HistoryNext ==
    \/ NothingRendered \/ ReadWindow \/ ScrollUp \/ ReadOlder \/ LookEnds
    \/ Cut \/ MessageComes

HistorySpec == HistoryInit /\ [][HistoryNext]_historyVars

-----------------------------------------------------------------------------
(* The worker stores found[1] as the next checkpoint, so what the scraper  *)
(* leaves out behind it is never read again.  Every message between the    *)
(* two checkpoints is returned, unless the limit is used up by newer ones; *)
(* and nothing is returned twice, or from before a checkpoint that was     *)
(* found: merged windows, an early end and the cut leave no gap.           *)
NoGapBeforeCheckpoint ==
    reader = "done" /\ found # <<>> =>
        /\ IsInjective(found) /\ Len(found) <= limit
        /\ \A k \in (mark + 1)..found[1] \ wordless :
             \/ Contains(found, k)
             \/ Cardinality({i \in DOMAIN found : found[i] > k}) = limit
        /\ \A i \in DOMAIN found : found[i] > mark
=============================================================================
