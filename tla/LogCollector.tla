---------------------------- MODULE LogCollector ----------------------------
(***************************************************************************)
(* QQmlAgentLogCollector: threads of the application log messages into one *)
(* buffer, the debug thread answers Log.enable, Log.getEntries, Log.clear  *)
(* and session resets, and entryAdded signals reach the client through the *)
(* GUI thread's event queue. A mutex protects the buffer and the           *)
(* eventsEnabled flag; timestamps are taken before it is locked and        *)
(* signals are emitted after it is unlocked.                               *)
(*                                                                         *)
(* The client of the model pages through the log as protocol.md describes, *)
(* passing nextSinceTimestamp back, with one level filter. Two parties log *)
(* at a time: the engine's warnings, and the message handler, which serves *)
(* the threads of the application one after the other.                     *)
(***************************************************************************)
EXTENDS LogBuffer, FiniteSets

CONSTANTS Loggers,   \* the message handler and the engine
          Keys,      \* level|text|file|line of the messages there can be
          LevelOf(_),
          SizeOf(_), \* bytes of the message's entry
          Pages,     \* the values of maxEntries a client uses
          AllLevels, \* no level filter
          NoEntry,
          MaxTime,   \* bound: timestamps are in 1..MaxTime, 0 is no cursor
          MaxLogged, \* bound: number of messages logged
          MaxEvents  \* bound: Log.enable comes only while fewer signals are queued

ASSUME BoundsAssumption == {MaxTime, MaxLogged, MaxEvents} \cup Pages \subseteq Nat /\ MaxTime # 0
ASSUME SizesAssumption  == \A k \in Keys : SizeOf(k) \in Nat

VARIABLES
    buffer, eventsEnabled,
    clock, logged,
    stamped,    \* the entry a thread is about to add, or NoEntry
    toEmit,     \* the entry a thread has added and will signal, or NoEntry
    replay,     \* what Log.enable still has to emit
    events,     \* entryAdded signals queued for sendEntryEvent
    \* The client.
    level, cursor, seen, delivered,
    \* History.
    replayed    \* Log.enable has asked for the buffered entries

clientVars == <<level, cursor, seen>>
vars == <<buffer, eventsEnabled, clock, logged, stamped, toEmit, replay, events,
          delivered, replayed, clientVars>>

EntryOf(k) == [id |-> logged + 1, key |-> k, size |-> SizeOf(k), time |-> clock]

(* The entries there can be; a thread that has none has NoEntry.           *)
Entries == [id : 1..MaxLogged, key : Keys, size : Nat, time : 1..MaxTime]

ASSUME NoEntryAssumption == NoEntry \notin Entries

IsEntry(e) == e.id \in 1..MaxLogged /\ e.key \in Keys /\ e.time \in 1..MaxTime

Init ==
    /\ buffer = Empty
    /\ eventsEnabled = FALSE
    /\ clock = 1
    /\ logged = 0
    /\ stamped = [t \in Loggers |-> NoEntry]
    /\ toEmit = [t \in Loggers |-> NoEntry]
    /\ replay = <<>>
    /\ events = <<>>
    /\ level \in {AllLevels} \cup {LevelOf(k) : k \in Keys}
    /\ cursor = 0
    /\ seen = {}
    /\ delivered = {}
    /\ replayed = FALSE

-----------------------------------------------------------------------------
Tick ==
    /\ clock < MaxTime
    /\ clock' = clock + 1
    /\ UNCHANGED <<buffer, eventsEnabled, logged, stamped, toEmit, replay, events,
                   delivered, replayed, clientVars>>

(* addWarning and captureMessage take the time before they call addEntry.  *)
Stamp(t, k) ==
    /\ logged < MaxLogged
    /\ stamped[t] = NoEntry
    /\ toEmit[t] = NoEntry
    /\ stamped' = [stamped EXCEPT ![t] = EntryOf(k)]
    /\ logged' = logged + 1
    /\ UNCHANGED <<buffer, eventsEnabled, clock, toEmit, replay, events, delivered,
                   replayed, clientVars>>

AddEntry(t) ==
    /\ stamped[t] # NoEntry
    /\ stamped' = [stamped EXCEPT ![t] = NoEntry]
    /\ buffer' = AppendEntry(buffer, stamped[t])
    /\ toEmit' = [toEmit EXCEPT ![t] =
                    IF Accepts(buffer, stamped[t]) /\ eventsEnabled THEN stamped[t] ELSE NoEntry]
    /\ UNCHANGED <<eventsEnabled, clock, logged, replay, events, delivered, replayed, clientVars>>

EmitLive(t) ==
    /\ toEmit[t] # NoEntry
    /\ events' = Append(events, toEmit[t])
    /\ toEmit' = [toEmit EXCEPT ![t] = NoEntry]
    /\ UNCHANGED <<buffer, eventsEnabled, clock, logged, stamped, replay, delivered,
                   replayed, clientVars>>

(* sendEntryEvent, on the GUI thread.                                      *)
Deliver ==
    /\ events # <<>>
    /\ delivered' = delivered \cup {Head(events)}
    /\ events' = Tail(events)
    /\ UNCHANGED <<buffer, eventsEnabled, clock, logged, stamped, toEmit, replay,
                   replayed, clientVars>>

-----------------------------------------------------------------------------
(* The debug thread; a replay in progress keeps it busy.                   *)

(* Mutant: live events are enabled only when there is nothing to replay.   *)
EnableAfterReplay(replayBuffered) ==
    /\ replay = <<>>
    /\ Len(events) < MaxEvents
    /\ replay' = IF replayBuffered THEN buffer.entries ELSE <<>>
    /\ eventsEnabled' = (eventsEnabled \/ replay' = <<>>)
    /\ replayed' = (replayed \/ replayBuffered)
    /\ UNCHANGED <<buffer, clock, logged, stamped, toEmit, events, delivered, clientVars>>

Enable(replayBuffered) ==
    /\ replay = <<>>
    /\ Len(events) < MaxEvents
    /\ eventsEnabled' = TRUE
    /\ replay' = IF replayBuffered THEN buffer.entries ELSE <<>>
    /\ replayed' = (replayed \/ replayBuffered)
    /\ UNCHANGED <<buffer, clock, logged, stamped, toEmit, events, delivered, clientVars>>

EmitReplay ==
    /\ replay # <<>>
    /\ events' = Append(events, Head(replay))
    /\ replay' = Tail(replay)
    /\ UNCHANGED <<buffer, eventsEnabled, clock, logged, stamped, toEmit, delivered,
                   replayed, clientVars>>

(* Log.clear and Session.reset; events stay enabled.                       *)
Clear ==
    /\ replay = <<>>
    /\ buffer' = Empty
    /\ UNCHANGED <<eventsEnabled, clock, logged, stamped, toEmit, replay, events,
                   delivered, replayed, clientVars>>

(* Mutant: the cursor's own timestamp is not skipped.                      *)
MatchingFromCursor(since, wanted) ==
    FoldLeft(LAMBDA result, e :
                IF e.time >= since /\ wanted \in {AllLevels, LevelOf(e.key)}
                THEN Append(result, e) ELSE result, <<>>, buffer.entries)

(* Log.getEntries: entries up to the cursor are skipped, then those of     *)
(* other levels, and of the rest the oldest maxEntries are returned.       *)
Matching(since, wanted) ==
    FoldLeft(LAMBDA result, e :
                IF e.time > since /\ wanted \in {AllLevels, LevelOf(e.key)}
                THEN Append(result, e) ELSE result, <<>>, buffer.entries)

Page(since, wanted, maxEntries) ==
    LET matching == Matching(since, wanted) IN
    SubSeq(matching, 1, IF maxEntries < Len(matching) THEN maxEntries ELSE Len(matching))

(* Mutant: the cursor is put behind the last entry instead of on it.       *)
NextSincePastPage(since, page) ==
    LET times == {since} \cup {page[i].time + 1 : i \in DOMAIN page} IN
    CHOOSE time \in times : \A other \in times : other <= time

NextSinceTimestamp(since, page) ==
    LET times == {since} \cup {page[i].time : i \in DOMAIN page} IN
    CHOOSE time \in times : \A other \in times : other <= time

GetEntries(maxEntries) ==
    LET page == Page(cursor, level, maxEntries) IN
    /\ replay = <<>>
    /\ cursor' = NextSinceTimestamp(cursor, page)
    /\ seen' = seen \cup ToSet(page)
    /\ UNCHANGED <<buffer, eventsEnabled, clock, logged, stamped, toEmit, replay, events,
                   delivered, replayed, level>>

-----------------------------------------------------------------------------
Next ==
    \/ Tick
    \/ \E t \in Loggers :
          \/ \E k \in Keys : Stamp(t, k)
          \/ AddEntry(t)
          \/ EmitLive(t)
    \/ Deliver
    \/ \E replayBuffered \in BOOLEAN : Enable(replayBuffered)
    \/ EmitReplay
    \/ Clear
    \/ \E maxEntries \in Pages : GetEntries(maxEntries)

Spec == Init /\ [][Next]_vars

-----------------------------------------------------------------------------
(* What is in the buffer and on its way are entries.                       *)
TypeOK ==
    /\ \A i \in DOMAIN buffer.entries : IsEntry(buffer.entries[i])
    /\ \A t \in Loggers : /\ stamped[t] = NoEntry \/ IsEntry(stamped[t])
                          /\ toEmit[t] = NoEntry \/ IsEntry(toEmit[t])
    /\ \A e \in seen \cup delivered : IsEntry(e)
    /\ {eventsEnabled, replayed} \subseteq BOOLEAN
    /\ cursor \in 0..MaxTime

(* The mutex-protected bookkeeping of the buffer never drifts.             *)
BufferConsistent == Consistent(buffer)

(* From a Log.enable with replayBuffered on, every entry that is in the    *)
(* buffer has been sent to the client or is on its way: none falls between *)
(* the replay's copy and the first live event.                             *)
NothingFallsBetween ==
    replayed =>
        ToSet(buffer.entries) \subseteq
            delivered \cup ToSet(events) \cup ToSet(replay) \cup {toEmit[t] : t \in Loggers}

(* Paging forward never returns an entry twice, although messages arrive,  *)
(* are evicted and are cleared between two pages.                          *)
PagesNeverRepeat == \A e \in seen : e \notin ToSet(Matching(cursor, level))

(* protocol.md:131: "pass the returned nextSinceTimestamp back to page     *)
(* forward". What the next page would omit, the one after it can return.   *)
OmittedEntriesFollow ==
    \A maxEntries \in Pages :
        LET page == Page(cursor, level, maxEntries) IN
        \A e \in ToSet(Matching(cursor, level)) \ ToSet(page) :
            e.time > NextSinceTimestamp(cursor, page)

=============================================================================
