--------------------------- MODULE NativeWatcher ----------------------------
(***************************************************************************)
(* LocalChangeMonitor: the callback of the operating system's watcher puts *)
(* events in a bounded channel and sets a flag when it is full; drain      *)
(* empties the channel, turns events into hints by looking at the disk as  *)
(* it is then, pairs the halves of renames over several drains and hands   *)
(* the reduced batch to the monitoring cycle.                              *)
(*                                                                         *)
(* The events of a change are external, as the notify library gives them   *)
(* on each system: on Linux both halves of a rename and the whole of it,   *)
(* with a tracker; on Windows the halves without one; on macOS one event   *)
(* per name that does not say which half it is.                            *)
(***************************************************************************)
EXTENDS ChangeHints

CONSTANTS
  Backend,        \* "linux", "windows" or "macos"
  Reuse,          \* a directory's name is taken by a file before a drain
  ChannelSize,    \* events the channel holds (8192 in the code)
  MaxPending,     \* rename halves kept (4096 in the code)
  MaxChanges      \* bound on the changes of the disk

VARIABLES
  disk,         \* what is at each path
  told,         \* what the monitoring cycle last saw there
  channel,      \* events not received yet
  overflowed,   \* the callback's flag
  pc, batch,    \* the drain in progress and the hints it has made
  pending,      \* rename halves kept over drains: [hint, expired]
  gone,         \* directories that left their name since the last drain
  changes

vars == <<disk, told, channel, overflowed, pc, batch, pending, gone, changes>>

ErrorEvent == [kind |-> "error", paths |-> <<>>, key |-> None, scope |-> "unknown"]

Event(kind, paths, key, scope) ==
  [kind |-> kind, paths |-> paths, key |-> key, scope |-> scope]

TypeOK ==
  /\ disk \in Trees /\ told \in [Paths -> Stamps]
  /\ Len(channel) <= ChannelSize
  /\ overflowed \in BOOLEAN
  /\ pc \in {"idle", "receiving"}
  /\ \A i \in DOMAIN batch : batch[i].scope \in {"file", "directory", "unknown"}
  /\ Cardinality(pending) <= MaxPending
  /\ \A q \in pending : OneSided(q.hint) /\ q.expired \in BOOLEAN
  /\ gone \subseteq Tops
  /\ changes \in 0..MaxChanges

\* start: the watcher is attached and the cycle has reconciled the root.
Init ==
  /\ disk \in {t \in Trees : t["d"] = "dir" /\ t["e"] = "absent"}
  /\ told = disk
  /\ channel = <<>> /\ overflowed = FALSE
  /\ pc = "idle" /\ batch = <<>> /\ pending = {}
  /\ gone = {} /\ changes = 0

(***************************************************************************)
(* The callback, and the changes it is called for.                         *)
(***************************************************************************)
\* As it would be if a full channel were not noted.
SilentCallback(events) ==
  /\ channel' = SubSeq(channel \o events, 1,
                       IF Len(channel \o events) <= ChannelSize
                       THEN Len(channel \o events) ELSE ChannelSize)
  /\ UNCHANGED overflowed

\* try_send, event by event.
Callback(events) ==
  LET all == channel \o events
  IN /\ channel' = IF Len(all) <= ChannelSize THEN all ELSE SubSeq(all, 1, ChannelSize)
     /\ overflowed' = (overflowed \/ Len(all) > ChannelSize)

Changed(tree, events) ==
  /\ changes < MaxChanges
  /\ changes' = changes + 1
  /\ tree \in Trees /\ tree # disk
  /\ disk' = tree
  /\ Callback(events)
  /\ UNCHANGED <<told, pc, batch, pending>>

Vanishing(p) == gone' = IF disk[p] = "dir" THEN gone \cup {p} ELSE gone

ScopeOf(s) == CASE s = "dir" -> "directory" [] IsFile(s) -> "file" [] OTHER -> "unknown"

\* Windows does not say what was created or removed.
Said(s) == IF Backend = "windows" THEN "unknown" ELSE ScopeOf(s)

Create(p, s) ==
  /\ disk[p] = "absent"
  /\ Reuse \/ p \notin gone \/ s = "dir"
  /\ Changed([disk EXCEPT ![p] = s], <<Event("create", <<p>>, None, Said(s))>>)
  /\ UNCHANGED gone

Modify(p) ==
  /\ IsFile(disk[p])
  /\ Changed([disk EXCEPT ![p] = IF @ = "v1" THEN "v2" ELSE "v1"],
             <<Event("modify", <<p>>, None, "unknown")>>)
  /\ UNCHANGED gone

\* A removal, of a directory with what is below it, each with its event.
Delete(p) ==
  /\ disk[p] # "absent"
  /\ LET below == IF p \in Tops THEN {Below(p)} \cap {c \in Children : disk[c] # "absent"}
                  ELSE {}
         inner == SetToSeq({Event("remove", <<c>>, None, Said(disk[c])) : c \in below})
     IN Changed([q \in Paths |-> IF q = p \/ q \in below THEN "absent" ELSE disk[q]],
                inner \o <<Event("remove", <<p>>, None, Said(disk[p]))>>)
  /\ Vanishing(p)

RenameEvents(p, q) ==
  CASE Backend = "linux" -> <<Event("from", <<p>>, changes, "unknown"),
                              Event("to", <<q>>, changes, "unknown"),
                              Event("both", <<p, q>>, changes, "unknown")>>
    [] Backend = "windows" -> <<Event("from", <<p>>, None, "unknown"),
                                Event("to", <<q>>, None, "unknown")>>
    [] OTHER -> <<Event("name", <<p>>, None, "unknown"),
                  Event("name", <<q>>, None, "unknown")>>

Carried(p, q) == [disk EXCEPT ![p] = "absent", ![q] = disk[p],
                              ![Below(p)] = "absent", ![Below(q)] = disk[Below(p)]]

Rename(p, q) ==
  /\ p # q /\ disk[p] # "absent" /\ disk[q] = "absent"
  /\ Reuse \/ q \notin gone \/ disk[p] = "dir"
  /\ Changed(Carried(p, q), RenameEvents(p, q))
  /\ Vanishing(p)

\* To and from a place outside the root: one half on Linux and macOS, a removal
\* or a creation on Windows.
RenameOut(p) ==
  /\ disk[p] # "absent"
  /\ Changed([disk EXCEPT ![p] = "absent", ![Below(p)] = "absent"],
       <<CASE Backend = "linux" -> Event("from", <<p>>, changes, "unknown")
           [] Backend = "windows" -> Event("remove", <<p>>, None, "unknown")
           [] OTHER -> Event("name", <<p>>, None, "unknown")>>)
  /\ Vanishing(p)

RenameIn(q, s, below) ==
  /\ disk[q] = "absent" /\ (s # "dir" => below = "absent")
  /\ Reuse \/ q \notin gone \/ s = "dir"
  /\ Changed([disk EXCEPT ![q] = s, ![Below(q)] = below],
       <<CASE Backend = "linux" -> Event("to", <<q>>, changes, "unknown")
           [] Backend = "windows" -> Event("create", <<q>>, None, "unknown")
           [] OTHER -> Event("name", <<q>>, None, "unknown")>>)
  /\ UNCHANGED gone

\* The library reports an error instead of the events of a change.
Misread(p) ==
  /\ IsFile(disk[p])
  /\ Changed([disk EXCEPT ![p] = IF @ = "v1" THEN "v2" ELSE "v1"], <<ErrorEvent>>)
  /\ UNCHANGED gone

(***************************************************************************)
(* drain_hints                                                             *)
(***************************************************************************)

\* The flag is taken before the channel is emptied.
BeginDrain ==
  /\ pc = "idle"
  /\ pc' = "receiving"
  /\ batch' = IF overflowed THEN <<OverflowHint>> ELSE <<>>
  /\ overflowed' = FALSE
  /\ UNCHANGED <<disk, told, channel, pending, gone, changes>>

\* observed_event_scope, as the path is when the event is read.
Observed(p, fallback) == IF disk[p] = "absent" THEN fallback ELSE ScopeOf(disk[p])

\* The scope of a whole rename: the new name's, else the old name's.
BothScope(p, q) == Observed(q, Observed(p, "unknown"))

ErrorHints(e) == <<RescanHint>>

\* path_hints: the path is the one after the change, or the one before it.
PathHint(kind, e) ==
  <<Hint(kind, None, e.paths[1], Observed(e.paths[1], e.scope), e.key)>>
PathHintBefore(kind, e) ==
  <<Hint(kind, e.paths[1], None, Observed(e.paths[1], e.scope), e.key)>>

\* hints_from_notify_event
HintsFrom(e) ==
  CASE e.kind = "error" -> ErrorHints(e)
    [] e.kind = "create" -> PathHint("created", e)
    [] e.kind = "modify" -> PathHint("modified", e)
    [] e.kind = "remove" -> PathHintBefore("removed", e)
    [] e.kind = "from" -> PathHintBefore("moved", e)
    [] e.kind = "to" -> PathHint("moved", e)
    [] e.kind = "both" ->
            <<Hint("moved", e.paths[1], e.paths[2],
                   BothScope(e.paths[1], e.paths[2]), e.key)>>
    [] e.kind = "name" -> PathHint("rescan", e)

Receive ==
  /\ pc = "receiving" /\ channel # <<>>
  /\ batch' = batch \o HintsFrom(Head(channel))
  /\ channel' = Tail(channel)
  /\ UNCHANGED <<disk, told, overflowed, pc, pending, gone, changes>>

\* A half that has waited too long becomes a rescan.
ExpiredHints(halves) == SetToSeq({[RescanHint EXCEPT !.key = None] : q \in halves})

RoomFor(halves) == Cardinality(halves) < MaxPending

ResolveOne(acc, h) ==
  LET same == {q \in acc.pending : q.hint.key = h.key}
      fresh == [hint |-> h, expired |-> FALSE]
  IN IF h.key = None THEN [acc EXCEPT !.out = Append(@, Conservative(h))]
     ELSE IF ~OneSided(h) THEN [acc EXCEPT !.out = Append(@, h)]
     ELSE IF same # {}
     THEN LET q == CHOOSE q \in same : TRUE
          IN IF Complementary(q.hint, h)
             THEN [out |-> Append(acc.out, Joined(q.hint, h)), pending |-> acc.pending \ {q}]
             ELSE [out |-> Append(acc.out, RescanHint),
                   pending |-> (acc.pending \ {q}) \cup {fresh}]
     ELSE IF ~RoomFor(acc.pending)
     THEN [out |-> Append(acc.out, RescanHint), pending |-> {}]
     ELSE [acc EXCEPT !.pending = @ \cup {fresh}]

\* resolve_native_rename_hints: a batch with a rescan or an overflow makes the
\* kept halves useless.
Resolved ==
  IF \E i \in DOMAIN batch : batch[i].kind \in {"overflow", "rescan"}
  THEN [out |-> batch, pending |-> {}]
  ELSE LET old == {q \in pending : q.expired}
       IN FoldLeft(ResolveOne, [out |-> ExpiredHints(old), pending |-> pending \ old], batch)

\* The cycle looks again at what the hints cover.
Deliver ==
  /\ pc = "receiving" /\ channel = <<>>
  /\ \E r \in {Resolved} : \E hints \in {CoalesceHints(r.out)} :
       /\ pending' = r.pending
       /\ told' = [p \in Paths |-> IF \E h \in hints : Covers(h, p) THEN disk[p] ELSE told[p]]
  /\ pc' = "idle" /\ batch' = <<>> /\ gone' = {}
  /\ UNCHANGED <<disk, channel, overflowed, changes>>

\* NATIVE_RENAME_EXPIRATION passes.
Expire ==
  /\ \E q \in pending : ~q.expired
  /\ pending' = {[q EXCEPT !.expired = TRUE] : q \in pending}
  /\ UNCHANGED <<disk, told, channel, overflowed, pc, batch, gone, changes>>

Change ==
  \/ \E p \in Paths, s \in {"v1", "dir"} : Create(p, s)
  \/ \E p \in Paths : Modify(p) \/ Delete(p) \/ Misread(p)
  \/ \E p, q \in Tops : Rename(p, q)
  \/ \E p \in Tops : RenameOut(p)
  \/ \E q \in Tops, s \in {"v1", "dir"}, below \in {"absent", "v1"} : RenameIn(q, s, below)

Drain == BeginDrain \/ Receive \/ Deliver

Next == Change \/ Drain \/ Expire

Spec == Init /\ [][Next]_vars
FairSpec == Spec /\ WF_vars(Drain) /\ WF_vars(Expire)

(***************************************************************************)
(* Properties.                                                             *)
(***************************************************************************)
Mentions(paths, p) == p \in paths \/ (p \in Children /\ Parent(p) \in paths)

\* Something on its way to the cycle is about path p.
Announced(p) ==
  \/ overflowed
  \/ \E i \in DOMAIN channel :
       channel[i] = ErrorEvent \/ Mentions({channel[i].paths[k] : k \in DOMAIN channel[i].paths}, p)
  \/ \E i \in DOMAIN batch : Named(batch[i]) = {} \/ Mentions(Named(batch[i]), p)
  \/ \E q \in pending : Mentions(Named(q.hint), p)

\* No change of the disk is lost: whatever the cycle does not know yet is in
\* the channel, in the flag, in the batch of the drain in progress or among the
\* rename halves kept over drains, although the channel may be full, the halves
\* arrive in different drains, and events are read after the path has changed
\* again (drain_hints, resolve_native_rename_hints, coalesce_change_hints).
NoChangeIsLost == \A p \in Paths : told[p] = disk[p] \/ Announced(p)

\* Once the disk is quiet the cycle comes to know it: a rename half whose other
\* half never comes expires into a rescan.
CycleLearns == <>[](told = disk)
=============================================================================
