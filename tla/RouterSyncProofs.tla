------------------------- MODULE RouterSyncProofs -------------------------
(***************************************************************************)
(* Theorems about RouterSync, for every number of addresses, pushes and    *)
(* forced syncs and for any number of changes and faults: type             *)
(* correctness, no removal of an address the tenant enforced when the      *)
(* operation decided but by a fullSync that took another command's answer  *)
(* for its own, and no operator entry removed by a fullSync that read the  *)
(* comments or by the purge.                                               *)
(***************************************************************************)
EXTENDS RouterSync, TLAPS

\* Where an operation may be, by its kind and by what it has read.
Placed(c) ==
    /\ c.op = "none" => c.pc = "idle"
    /\ c.op = "purge" => c.pc \in {"connect", "entries", "remove"}
    /\ c.read => c.op = "sync" /\ c.pc \in {"delta", "add", "remove"}
    /\ c.due # {} \/ c.astray =>
         c.op = "sync" /\ ~ c.read /\ c.pc \notin {"check", "connect", "current", "entries"}

\* A push about to check has one address, to ban or to unban.
Checking(c) ==
    c.pc = "check" => /\ c.ids = {} /\ \A t, u \in c.rem : t = u
                      /\ c.op # "unban" => c.rem = {}

\* Entries read with their comments, and still the same ones, carry the tag.
Reads(c) == c.read \/ c.op = "purge" => \A t \in c.ids : list[t] = "tagged"

\* What an operation has decided to remove was not enforced, or came to be
\* since; entries it did not ask for, only if they were another's answer.
Decided(c) ==
    c.op # "purge" /\ c.pc \notin {"check", "entries", "delta"} =>
        /\ \A t \in c.rem : ~ Delivered(t) \/ t \in c.late
        /\ \A t \in c.ids : ~ Delivered(t) \/ t \in c.late \/ c.astray

RecInv(c) == c \in ProcRec /\ Placed(c) /\ Checking(c) /\ Reads(c) /\ Decided(c)

ProcInv == \A p \in Proc : RecInv(proc[p])

\* The purge's process runs nothing else.
PurgeInv == proc[Purge].op \in {"none", "purge"}

SyncInv == TypeOK /\ ProcInv /\ PurgeInv
-----------------------------------------------------------------------------
(* Records. *)

LEMMA IdleFields ==
    /\ Idle \in ProcRec /\ Idle.op = "none" /\ Idle.pc = "idle" /\ Idle.add = {}
    /\ Idle.rem = {} /\ Idle.ids = {} /\ ~ Idle.read /\ Idle.late = {}
    /\ Idle.due = {} /\ ~ Idle.astray
BY DEF Idle, ProcRec, Ops, Places

LEMMA IdleInv == RecInv(Idle) /\ RecInv(Idle)'
<1>1. RecInv(Idle)
  BY IdleFields DEF RecInv, Placed, Checking, Reads, Decided
<1>2. RecInv(Idle)'
  BY IdleFields DEF RecInv, Placed, Checking, Reads, Decided, Idle
<1> QED BY <1>1, <1>2

\* An operation that goes on with less.
LEMMA Advances ==
    ASSUME NEW c, RecInv(c), NEW d \in ProcRec, d.op = c.op, d.read = c.read, d.late = c.late,
           d.astray = c.astray, d.ids \subseteq c.ids, d.rem \subseteq c.rem, Placed(d), d.pc # "check",
           c.pc \notin {"check", "entries", "delta"}
    PROVE  RecInv(d)
<1>1. Checking(d) /\ Reads(d)
  BY DEF RecInv, Checking, Reads
<1>2. Decided(d)
  BY DEF RecInv, Decided
<1> QED BY <1>1, <1>2 DEF RecInv

LEMMA AfterAddsFields ==
    ASSUME NEW c \in ProcRec
    PROVE  \/ AfterAdds(c) = Idle
           \/ /\ AfterAdds(c) \in ProcRec /\ AfterAdds(c).op = c.op /\ c.op = "sync"
              /\ AfterAdds(c).read = c.read /\ AfterAdds(c).late = c.late
              /\ AfterAdds(c).ids = c.ids /\ AfterAdds(c).rem = c.rem
              /\ AfterAdds(c).due = c.due /\ AfterAdds(c).astray = c.astray
              /\ \/ c.read /\ AfterAdds(c).pc = "remove"
                 \/ ~ c.read /\ AfterAdds(c).pc = "known"
<1>1. \/ AfterAdds(c) = Idle
      \/ c.op = "sync" /\ c.read /\ AfterAdds(c) = [c EXCEPT !.pc = "remove"]
      \/ c.op = "sync" /\ ~ c.read /\ AfterAdds(c) = [c EXCEPT !.pc = "known"]
  BY DEF AfterAdds
<1> QED BY <1>1 DEF ProcRec, Places

LEMMA AfterRemovalFields ==
    ASSUME NEW c \in ProcRec
    PROVE  \/ AfterRemoval(c) = Idle \/ AfterRemoval(c) = c
           \/ /\ AfterRemoval(c) \in ProcRec /\ AfterRemoval(c).op = c.op /\ ~ c.read
              /\ AfterRemoval(c).read = c.read /\ AfterRemoval(c).late = c.late
              /\ AfterRemoval(c).ids = c.ids /\ AfterRemoval(c).rem = c.rem
              /\ AfterRemoval(c).due = c.due /\ AfterRemoval(c).astray = c.astray
              /\ AfterRemoval(c).pc = "unban"
<1>1. \/ AfterRemoval(c) = Idle \/ AfterRemoval(c) = c
      \/ ~ c.read /\ AfterRemoval(c) = [c EXCEPT !.pc = "unban"]
  BY DEF AfterRemoval
<1> QED BY <1>1 DEF ProcRec, Places
-----------------------------------------------------------------------------
(* One operation moves, the table and the router stay. *)

LEMMA OneMoves ==
    ASSUME SyncInv, NEW p \in Proc, NEW c, Goes(p, c), UNCHANGED <<table, list>>, RecInv(c),
           p = Purge => c.op \in {proc[p].op, "none", "purge"}
    PROVE  ProcInv' /\ PurgeInv' /\ proc' \in [Proc -> ProcRec]
<1>1. proc' = [proc EXCEPT ![p] = c]
  BY DEF Goes
<1>2. c \in ProcRec
  BY DEF RecInv
<1>3. proc' \in [Proc -> ProcRec]
  BY <1>1, <1>2 DEF SyncInv, TypeOK
<1>4. \A q \in Proc : RecInv(proc'[q])
  BY <1>1 DEF SyncInv, ProcInv, TypeOK
<1>5. \A t \in Target : Delivered(t)' = Delivered(t)
  BY DEF table, Delivered, Wanted, Wants
<1>6. ASSUME NEW q \in Proc
      PROVE  RecInv(proc[q])'
  <2>1. proc'[q] \in ProcRec /\ proc'[q].rem \cup proc'[q].ids \subseteq Target
    BY <1>3 DEF ProcRec
  <2>2. Placed(proc[q])' /\ Checking(proc[q])'
    BY <1>4 DEF RecInv, Placed, Checking
  <2>3. Reads(proc[q])'
    BY <1>4 DEF RecInv, Reads
  <2>4. Decided(proc[q])'
    BY <1>4, <1>5, <2>1 DEF RecInv, Decided
  <2> QED BY <2>1, <2>2, <2>3, <2>4 DEF RecInv
<1>7. PurgeInv'
  <2>1. Purge \in Proc
    BY DEF Proc
  <2> QED BY <1>1, <2>1 DEF SyncInv, PurgeInv, TypeOK
<1> QED BY <1>3, <1>6, <1>7 DEF ProcInv
-----------------------------------------------------------------------------
(* The bans change: whoever is under way is told what comes into force. *)

LEMMA ToldKeeps ==
    ASSUME SyncInv, NEW b, NEW x, NEW w, bans' = b, excluded' = x, whitelist' = w,
           UNCHANGED list, NEW p \in Proc, NEW T, T = Told(b, x, w)
    PROVE  T \in [Proc -> ProcRec] /\ RecInv(T[p])' /\ T[p].op = proc[p].op
<1> DEFINE N == {t \in Target : Wants(b, x, t) /\ t \notin w /\ ~ Delivered(t)}
<1>1. \A t \in Target : Delivered(t)' => Delivered(t) \/ t \in N
  BY DEF Delivered, Wanted
<1>2. N \in SUBSET Target
  OBVIOUS
<1>3. T = [q \in Proc |-> IF proc[q] = Idle THEN Idle ELSE [proc[q] EXCEPT !.late = @ \cup N]]
  BY DEF Told
<1> HIDE DEF N
<1>4. ASSUME NEW q \in Proc
      PROVE  /\ T[q] \in ProcRec /\ T[q].op = proc[q].op /\ T[q].pc = proc[q].pc
             /\ T[q].rem = proc[q].rem /\ T[q].ids = proc[q].ids /\ T[q].read = proc[q].read
             /\ T[q].due = proc[q].due /\ T[q].astray = proc[q].astray
             /\ T[q] = Idle \/ T[q].late = proc[q].late \cup N
  <2>1. proc[q] \in ProcRec
    BY DEF SyncInv, TypeOK
  <2> DEFINE c == [proc[q] EXCEPT !.late = @ \cup N]
  <2>2. /\ c \in ProcRec /\ c.op = proc[q].op /\ c.pc = proc[q].pc /\ c.rem = proc[q].rem
        /\ c.ids = proc[q].ids /\ c.read = proc[q].read /\ c.late = proc[q].late \cup N
        /\ c.due = proc[q].due /\ c.astray = proc[q].astray
    BY <1>2, <2>1 DEF ProcRec
  <2>3. \/ proc[q] = Idle /\ T[q] = Idle
        \/ T[q] = c
    BY <1>3
  <2> HIDE DEF c
  <2> QED BY <2>2, <2>3, IdleFields
<1>5. T \in [Proc -> ProcRec]
  BY <1>3, <1>4
<1>6. RecInv(T[p])'
  <2>1. RecInv(proc[p])
    BY DEF SyncInv, ProcInv
  <2>2. CASE T[p] = Idle
    BY <2>2, IdleFields DEF RecInv, Placed, Checking, Reads, Decided
  <2>3. CASE T[p].late = proc[p].late \cup N
    <3>1. T[p] \in ProcRec /\ T[p].rem \cup T[p].ids \subseteq Target
      BY <1>4 DEF ProcRec
    <3>2. Placed(T[p])' /\ Checking(T[p])' /\ Reads(T[p])'
      BY <1>4, <2>1 DEF RecInv, Placed, Checking, Reads
    <3>3. Decided(T[p])'
      BY <1>1, <1>4, <2>1, <2>3, <3>1 DEF RecInv, Decided
    <3> QED BY <3>1, <3>2, <3>3 DEF RecInv
  <2> QED BY <1>4, <2>2, <2>3
<1> QED BY <1>4, <1>5, <1>6

\* Told, but that one operation starts anew.
LEMMA ToldAndStarted ==
    ASSUME SyncInv, NEW b, NEW x, NEW w, bans' = b, excluded' = x, whitelist' = w,
           UNCHANGED list, NEW p \in Proc \ {Purge}, NEW c, RecInv(c)',
           proc' = Told(b, x, w) \/ proc' = [Told(b, x, w) EXCEPT ![p] = c]
    PROVE  ProcInv' /\ PurgeInv' /\ proc' \in [Proc -> ProcRec]
<1>1. PICK T : T = Told(b, x, w)
  OBVIOUS
<1>2. proc' = T \/ proc' = [T EXCEPT ![p] = c]
  BY <1>1
<1>3. T \in [Proc -> ProcRec] /\ \A q \in Proc : RecInv(T[q])' /\ T[q].op = proc[q].op
  <2>1. \A q \in Proc : T \in [Proc -> ProcRec] /\ RecInv(T[q])' /\ T[q].op = proc[q].op
    BY <1>1, ToldKeeps
  <2>2. Purge \in Proc
    BY DEF Proc
  <2> QED BY <2>1, <2>2
<1>4. c \in ProcRec
  BY DEF RecInv
<1>5. proc' \in [Proc -> ProcRec]
  BY <1>2, <1>3, <1>4
<1>6. \A q \in Proc : proc'[q] = T[q] \/ (q = p /\ proc'[q] = c)
  BY <1>2, <1>3
<1>7. ProcInv'
  BY <1>3, <1>6 DEF ProcInv, RecInv, Placed, Checking, Reads, Decided
<1>8. PurgeInv'
  <2>1. Purge \in Proc
    BY DEF Proc
  <2> QED BY <1>3, <1>6, <2>1 DEF SyncInv, PurgeInv
<1> QED BY <1>5, <1>7, <1>8

LEMMA NotPurge == \A p \in Push \cup Sync : p \in Proc \ {Purge}
BY ConstantsAssumption DEF Proc, Sync

\* A push starts by checking.
LEMMA PushKeeps ==
    ASSUME SyncInv, NEW p \in Push, NEW b \in SUBSET (Target \X Scopes), NEW x \in SUBSET Target,
           NEW o \in {"ban", "banHere", "unban"}, NEW t \in Target, ChangeWithPush(p, b, x, o, t)
    PROVE  SyncInv'
<1> DEFINE a == IF o = "unban" THEN {} ELSE {t}
           r == IF o = "unban" THEN {t} ELSE {}
           c == [Idle EXCEPT !.op = o, !.pc = "check", !.add = a, !.rem = r]
<1>1. /\ bans' = b /\ excluded' = x /\ whitelist' = whitelist /\ UNCHANGED list
      /\ proc' = [Told(b, x, whitelist) EXCEPT ![p] = c]
  BY DEF ChangeWithPush
<1>2. /\ c \in ProcRec /\ c.op = o /\ c.pc = "check" /\ c.rem = r /\ c.ids = {} /\ ~ c.read
      /\ c.due = {} /\ ~ c.astray
  <2>1. o \in Ops /\ "check" \in Places /\ a \in SUBSET Target /\ r \in SUBSET Target
    BY DEF Ops, Places
  <2> HIDE DEF a, r
  <2> QED BY <2>1 DEF Idle, ProcRec
<1>3. PICK d : d = c
  OBVIOUS
<1>4. RecInv(d)'
  <2>1. d \in ProcRec /\ Placed(d)' /\ Reads(d)' /\ Decided(d)'
    BY <1>2, <1>3 DEF Placed, Reads, Decided
  <2>2. Checking(d)'
    BY <1>2, <1>3 DEF Checking
  <2> QED BY <2>1, <2>2 DEF RecInv
<1>5. ProcInv' /\ PurgeInv' /\ proc' \in [Proc -> ProcRec]
  <2> HIDE DEF c
  <2> QED BY <1>1, <1>3, <1>4, ToldAndStarted, NotPurge
<1>6. changes' \in 0 .. MaxChanges
  BY ConstantsAssumption DEF ChangeWithPush, Change, SyncInv, TypeOK
<1> QED BY <1>5, <1>6 DEF ChangeWithPush, SyncInv, TypeOK

LEMMA BanChangeKeeps ==
    ASSUME SyncInv, NEW p \in Push, NEW t \in Target, BanChange(p, t)
    PROVE  SyncInv'
<1>0. bans \in SUBSET (Target \X Scopes) /\ excluded \in SUBSET Target
  BY DEF SyncInv, TypeOK
<1>1. ASSUME NEW s \in Scopes, Create(p, t, s)
      PROVE  SyncInv'
  <2>1. bans \cup {<<t, s>>} \in SUBSET (Target \X Scopes)
    BY <1>0
  <2>2. (IF s = "global" THEN "ban" ELSE "banHere") \in {"ban", "banHere", "unban"}
    OBVIOUS
  <2> QED BY <1>0, <1>1, <2>1, <2>2, PushKeeps DEF Create
<1>2. ASSUME NEW s \in Scopes, Lift(p, t, s)
      PROVE  SyncInv'
  <2>1. /\ bans \ {<<t, s>>} \in SUBSET (Target \X Scopes)
        /\ (IF s = "global" THEN excluded \ {t} ELSE excluded) \in SUBSET Target
    BY <1>0
  <2> QED BY <1>2, <2>1, PushKeeps DEF Lift
<1>3. CASE PromoteToGlobal(p, t)
  <2>1. (bans \ {<<t, "local">>}) \cup {<<t, "global">>} \in SUBSET (Target \X Scopes)
    BY <1>0 DEF Scopes
  <2> QED BY <1>0, <1>3, <2>1, PushKeeps DEF PromoteToGlobal
<1>4. CASE ExcludeForTenant(p, t)
  <2>1. excluded \cup {t} \in SUBSET Target
    BY <1>0
  <2> QED BY <1>0, <1>4, <2>1, PushKeeps DEF ExcludeForTenant
<1>5. CASE RemoveExclusion(p, t)
  <2>1. excluded \ {t} \in SUBSET Target
    BY <1>0
  <2> QED BY <1>0, <1>5, <2>1, PushKeeps DEF RemoveExclusion
<1> QED BY <1>1, <1>2, <1>3, <1>4, <1>5 DEF BanChange

LEMMA MassKeeps ==
    ASSUME SyncInv, NEW S \in SUBSET (Target \X Scopes), MassChange(S)
    PROVE  SyncInv'
<1> DEFINE b == IF S \subseteq bans THEN bans \ S ELSE bans \cup S
           x == excluded \ {e[1] : e \in S}
           c == [Idle EXCEPT !.op = "sync", !.pc = "connect"]
<1>1. /\ bans' = b /\ excluded' = x /\ whitelist' = whitelist /\ UNCHANGED list
      /\ proc' = Reconciled(Told(b, x, whitelist))
      /\ known' = known \cup {e[1] : e \in S} /\ UNCHANGED <<device, faults>> /\ Change
  BY DEF MassChange
<1>2. \A e \in S : e[1] \in Target
  OBVIOUS
<1>3. b \in SUBSET (Target \X Scopes) /\ x \in SUBSET Target /\ known' \subseteq Target
  BY <1>1, <1>2 DEF SyncInv, TypeOK
<1>4. PICK d : d = c
  OBVIOUS
<1>5. RecInv(d)'
  <2>1. /\ d \in ProcRec /\ d.op = "sync" /\ d.pc = "connect" /\ d.rem = {} /\ d.ids = {}
        /\ ~ d.read /\ d.due = {} /\ ~ d.astray
    BY <1>4 DEF Idle, ProcRec, Ops, Places
  <2> QED BY <2>1 DEF RecInv, Placed, Checking, Reads, Decided
<1>6. \/ proc' = Told(b, x, whitelist)
      \/ proc' = [Told(b, x, whitelist) EXCEPT ![Reconciler] = d]
  BY <1>1, <1>4 DEF Reconciled
<1>7. Reconciler \in Proc \ {Purge}
  BY NotPurge DEF Sync
<1> HIDE DEF b, x
<1>8. ProcInv' /\ PurgeInv' /\ proc' \in [Proc -> ProcRec]
  BY <1>1, <1>5, <1>6, <1>7, ToldAndStarted
<1>9. changes' \in 0 .. MaxChanges
  BY <1>1, ConstantsAssumption DEF Change, SyncInv, TypeOK
<1> QED BY <1>1, <1>3, <1>8, <1>9 DEF SyncInv, TypeOK

LEMMA ToggleKeeps ==
    ASSUME SyncInv, NEW t \in Target, ToggleWhitelist(t)
    PROVE  SyncInv'
<1> DEFINE w == IF t \in whitelist THEN whitelist \ {t} ELSE whitelist \cup {t}
<1>1. /\ bans' = bans /\ excluded' = excluded /\ whitelist' = w /\ UNCHANGED list
      /\ proc' = Told(bans, excluded, w)
  BY DEF ToggleWhitelist
<1>2. w \in SUBSET Target
  BY DEF SyncInv, TypeOK
<1> HIDE DEF w
<1>3. Reconciler \in Proc \ {Purge}
  BY NotPurge DEF Sync
<1>4. ProcInv' /\ PurgeInv' /\ proc' \in [Proc -> ProcRec]
  BY <1>1, <1>3, IdleInv, ToldAndStarted
<1>5. changes' \in 0 .. MaxChanges
  BY ConstantsAssumption DEF ToggleWhitelist, Change, SyncInv, TypeOK
<1> QED BY <1>1, <1>2, <1>4, <1>5 DEF ToggleWhitelist, SyncInv, TypeOK
-----------------------------------------------------------------------------
(* The router's list changes: an entry removed or replaced is read by nobody. *)

LEMMA Forgets ==
    ASSUME SyncInv, UNCHANGED table, NEW S,
           \A t \in Target \ S : list[t] = "tagged" => list'[t] = "tagged",
           NEW c, RecInv(c), NEW d \in ProcRec, d.op = c.op, d.pc = c.pc, d.read = c.read,
           d.late = c.late, d.rem = c.rem, d.ids \subseteq c.ids \ S, d.astray = c.astray,
           d.due # {} => c.due # {}
    PROVE  RecInv(d)'
<1>1. d.rem \cup d.ids \subseteq Target
  BY DEF ProcRec
<1>2. \A t \in Target : Delivered(t)' = Delivered(t)
  BY DEF table, Delivered, Wanted, Wants
<1>3. Placed(d)' /\ Checking(d)'
  BY DEF RecInv, Placed, Checking
<1>4. Reads(d)'
  BY <1>1 DEF RecInv, Reads
<1>5. Decided(d)'
  BY <1>1, <1>2 DEF RecInv, Decided
<1> QED BY <1>3, <1>4, <1>5 DEF RecInv

\* What forgetting S leaves of an operation.
LEMMA ForgottenFields ==
    ASSUME SyncInv, NEW S, NEW q \in Proc, NEW d, d = Forgotten(S)[q]
    PROVE  /\ d \in ProcRec /\ d.op = proc[q].op /\ d.pc = proc[q].pc /\ d.read = proc[q].read
           /\ d.late = proc[q].late /\ d.rem = proc[q].rem /\ d.ids = proc[q].ids \ S
           /\ d.astray = proc[q].astray /\ (d.due # {} => proc[q].due # {})
<1>1. proc[q] \in ProcRec
  BY DEF SyncInv, TypeOK
<1>2. ASSUME NEW r \in Reply PROVE Without(S, r) \in Reply
  BY DEF Without, Reply
<1>3. PICK D : D = {Without(S, r) : r \in proc[q].due}
  OBVIOUS
<1>4. D \in SUBSET Reply /\ (D # {} => proc[q].due # {})
  BY <1>1, <1>2, <1>3 DEF ProcRec
<1>5. d = [proc[q] EXCEPT !.ids = @ \ S, !.due = D]
  BY <1>3 DEF Forgotten
<1> QED BY <1>1, <1>4, <1>5 DEF ProcRec

\* Everybody forgets S, but that p goes on as c.
LEMMA ListKeeps ==
    ASSUME SyncInv, UNCHANGED table, NEW S,
           \A t \in Target \ S : list[t] = "tagged" => list'[t] = "tagged",
           NEW p \in Proc, NEW c, RecInv(c)', p = Purge => c.op \in {"none", "purge"},
           proc' = [Forgotten(S) EXCEPT ![p] = c]
    PROVE  ProcInv' /\ PurgeInv' /\ proc' \in [Proc -> ProcRec]
<1>0. proc' = [q \in Proc |-> IF q = p THEN c ELSE Forgotten(S)[q]]
  BY DEF Forgotten
<1>1. ASSUME NEW q \in Proc
      PROVE  RecInv(proc[q])' /\ (q # p => proc'[q].op = proc[q].op)
  <2>1. RecInv(proc[q]) /\ proc[q] \in ProcRec
    BY DEF SyncInv, ProcInv, TypeOK
  <2>2. PICK d : d = Forgotten(S)[q]
    OBVIOUS
  <2>3. /\ d \in ProcRec /\ d.op = proc[q].op /\ d.pc = proc[q].pc /\ d.read = proc[q].read
        /\ d.late = proc[q].late /\ d.rem = proc[q].rem /\ d.ids = proc[q].ids \ S
        /\ d.astray = proc[q].astray /\ (d.due # {} => proc[q].due # {})
    BY <2>2, ForgottenFields
  <2>4. RecInv(d)'
    BY <2>1, <2>3, Forgets
  <2>5. proc'[q] = IF q = p THEN c ELSE d
    BY <1>0, <2>2
  <2>6. RecInv(proc[q])'
    <3>1. CASE proc'[q] = c
      BY <3>1 DEF RecInv, Placed, Checking, Reads, Decided
    <3>2. CASE proc'[q] = d
      BY <2>4, <3>2 DEF RecInv, Placed, Checking, Reads, Decided
    <3> QED BY <2>5, <3>1, <3>2
  <2> QED BY <2>3, <2>5, <2>6
<1>2. \A q \in Proc : proc'[q] \in ProcRec
  BY <1>1 DEF RecInv
<1>3. proc' \in [Proc -> ProcRec]
  BY <1>0, <1>2
<1>4. PurgeInv'
  <2>1. Purge \in Proc
    BY DEF Proc
  <2>2. CASE p = Purge
    BY <1>0, <2>1, <2>2 DEF PurgeInv
  <2>3. CASE p # Purge
    BY <1>1, <2>1, <2>3 DEF SyncInv, PurgeInv
  <2> QED BY <2>2, <2>3
<1> QED BY <1>1, <1>3, <1>4 DEF ProcInv

LEMMA EditsKeep ==
    ASSUME SyncInv, NEW t \in Target, OperatorEdits(t)
    PROVE  SyncInv'
<1>1. /\ proc' = Forgotten({t})
      /\ list' = [list EXCEPT ![t] = IF @ = "none" THEN "operator" ELSE "none"]
      /\ UNCHANGED table
  BY DEF OperatorEdits
<1>2. \A u \in Target \ {t} : list'[u] = list[u]
  BY <1>1 DEF SyncInv, TypeOK
<1>3. Purge \in Proc /\ RecInv(proc[Purge]) /\ proc[Purge] \in ProcRec
  BY DEF SyncInv, ProcInv, TypeOK, Proc
<1>4. PICK d : d = Forgotten({t})[Purge]
  OBVIOUS
<1>5. /\ d \in ProcRec /\ d.op = proc[Purge].op /\ d.pc = proc[Purge].pc /\ d.read = proc[Purge].read
      /\ d.late = proc[Purge].late /\ d.rem = proc[Purge].rem /\ d.ids = proc[Purge].ids \ {t}
      /\ d.astray = proc[Purge].astray /\ (d.due # {} => proc[Purge].due # {})
  BY <1>3, <1>4, ForgottenFields
<1>6. RecInv(d)'
  BY <1>1, <1>2, <1>3, <1>5, Forgets
<1>7. proc' = [Forgotten({t}) EXCEPT ![Purge] = d]
  BY <1>1, <1>4 DEF Forgotten
<1>8. ProcInv' /\ PurgeInv' /\ proc' \in [Proc -> ProcRec]
  <2>1. d.op \in {"none", "purge"}
    BY <1>5 DEF SyncInv, PurgeInv
  <2> QED BY <1>1, <1>2, <1>3, <1>6, <1>7, <2>1, ListKeeps
<1>9. list' \in [Target -> {"none", "operator", "tagged"}] /\ changes' \in 0 .. MaxChanges
  BY <1>1, ConstantsAssumption DEF OperatorEdits, Change, SyncInv, TypeOK
<1> QED BY <1>1, <1>8, <1>9 DEF OperatorEdits, SyncInv, TypeOK, table

LEMMA PurgeKeeps ==
    ASSUME SyncInv, PurgeRemove
    PROVE  SyncInv'
<1>1. PICK S \in SUBSET proc[Purge].ids :
         /\ list' = [t \in Target |-> IF t \in S THEN "none" ELSE list[t]]
         /\ proc' = [Forgotten(S) EXCEPT ![Purge] = Idle]
  BY DEF PurgeRemove
<1>2. UNCHANGED <<table, device, changes, faults>> /\ Purge \in Proc
  BY DEF PurgeRemove, Proc
<1>3. \A t \in Target \ S : list'[t] = list[t]
  BY <1>1
<1>4. ProcInv' /\ PurgeInv' /\ proc' \in [Proc -> ProcRec]
  BY <1>1, <1>2, <1>3, IdleFields, IdleInv, ListKeeps
<1>5. list' \in [Target -> {"none", "operator", "tagged"}]
  BY <1>1 DEF SyncInv, TypeOK
<1> QED BY <1>2, <1>4, <1>5 DEF SyncInv, TypeOK, table
-----------------------------------------------------------------------------
(* A command: its own answer, or the one that was still to come. *)

LEMMA AnswersFields ==
    ASSUME NEW c \in ProcRec, NEW own \in Reply, NEW r \in Answers(c, own)
    PROVE  /\ r.got \in Reply /\ r.due \in SUBSET Reply
           /\ r.due # {} => c.due # {}
           /\ r.due = {} => r.got = own
<1>1. CASE r = [got |-> own, due |-> {}]
  BY <1>1
<1>2. ASSUME NEW e \in c.due, r = [got |-> e, due |-> {own}]
      PROVE  /\ r.got \in Reply /\ r.due \in SUBSET Reply
             /\ r.due # {} /\ c.due # {}
  BY <1>2 DEF ProcRec
<1> QED BY <1>1, <1>2 DEF Answers

LEMMA OwnAnswers ==
    /\ Nothing \in Reply /\ Trap \in Reply
    /\ \A S \in SUBSET Target : /\ [Nothing EXCEPT !.names = S] \in Reply
                                /\ [Nothing EXCEPT !.names = S].names = S
<1>1. Nothing \in Reply /\ Trap \in Reply
  BY DEF Nothing, Trap, Reply
<1>2. ASSUME NEW S \in SUBSET Target
      PROVE  [Nothing EXCEPT !.names = S] \in Reply /\ [Nothing EXCEPT !.names = S].names = S
  BY <1>1 DEF Reply
<1> QED BY <1>1, <1>2

LEMMA RemoveKeeps ==
    ASSUME SyncInv, NEW p \in Proc, NEW t \in Target, RemoveEntry(p, t)
    PROVE  SyncInv'
<1>1. /\ proc[p].pc = "remove" /\ proc[p].op # "purge" /\ t \in proc[p].ids
      /\ list' = [list EXCEPT ![t] = "none"]
      /\ UNCHANGED <<table, device, changes, faults>>
  BY DEF RemoveEntry
<1>2. \A u \in Target \ {t} : list'[u] = list[u]
  BY <1>1 DEF SyncInv, TypeOK
<1>3. RecInv(proc[p]) /\ proc[p] \in ProcRec
  BY DEF SyncInv, ProcInv, TypeOK
<1>r. PICK r \in Answers(proc[p], Nothing) :
        proc' = [Forgotten({t}) EXCEPT
                   ![p] = AfterRemoval([proc[p] EXCEPT !.ids = @ \ {t}, !.due = r.due])]
  BY DEF RemoveEntry
<1>a. r.due \in SUBSET Reply /\ (r.due # {} => proc[p].due # {})
  BY <1>3, AnswersFields, OwnAnswers
<1>4. PICK d : d = [proc[p] EXCEPT !.ids = @ \ {t}, !.due = r.due]
  OBVIOUS
<1>5. /\ d \in ProcRec /\ d.op = proc[p].op /\ d.pc = proc[p].pc /\ d.read = proc[p].read
      /\ d.late = proc[p].late /\ d.rem = proc[p].rem /\ d.ids = proc[p].ids \ {t}
      /\ d.astray = proc[p].astray /\ d.due = r.due
  BY <1>3, <1>4, <1>a DEF ProcRec
<1>6. PICK c : c = AfterRemoval(d)
  OBVIOUS
<1>7. RecInv(d)'
  BY <1>1, <1>2, <1>3, <1>5, <1>a, Forgets
<1>8. RecInv(c)' /\ c.op \in {d.op, "none"}
  <2>1. CASE c = Idle
    BY <2>1, IdleFields DEF RecInv, Placed, Checking, Reads, Decided
  <2>2. CASE c = d
    BY <1>7, <2>2
  <2>3. CASE /\ c \in ProcRec /\ c.op = d.op /\ ~ d.read /\ c.read = d.read /\ c.late = d.late
             /\ c.ids = d.ids /\ c.rem = d.rem /\ c.due = d.due /\ c.astray = d.astray
             /\ c.pc = "unban"
    BY <1>1, <1>5, <1>7, <2>3 DEF RecInv, Placed, Checking, Reads, Decided
  <2> QED BY <1>5, <1>6, <2>1, <2>2, <2>3, AfterRemovalFields
<1>9. proc' = [Forgotten({t}) EXCEPT ![p] = c]
  BY <1>r, <1>4, <1>6
<1>10. p = Purge => c.op \in {"none", "purge"}
  BY <1>5, <1>8 DEF SyncInv, PurgeInv
<1>11. ProcInv' /\ PurgeInv' /\ proc' \in [Proc -> ProcRec]
  BY <1>1, <1>2, <1>8, <1>9, <1>10, ListKeeps
<1>12. list' \in [Target -> {"none", "operator", "tagged"}]
  BY <1>1 DEF SyncInv, TypeOK
<1> QED BY <1>1, <1>11, <1>12 DEF SyncInv, TypeOK, table

\* banIP: an entry may appear; one that is there stays.
LEMMA BanIPKeeps ==
    ASSUME SyncInv, NEW p \in Proc, NEW t \in Target, BanIP(p, t)
    PROVE  SyncInv'
<1>1. /\ proc[p].pc = "add" /\ t \in proc[p].add
      /\ list' = [list EXCEPT ![t] = IF @ = "none" /\ t \notin Refused THEN "tagged" ELSE @]
      /\ UNCHANGED <<table, device, changes, faults>>
  BY DEF BanIP
<1>2. \A u \in Target \ {} : list[u] = "tagged" => list'[u] = "tagged"
  BY <1>1 DEF SyncInv, TypeOK
<1>3. RecInv(proc[p]) /\ proc[p] \in ProcRec
  BY DEF SyncInv, ProcInv, TypeOK
<1>r. PICK r \in Answers(proc[p], IF t \in Refused THEN Trap ELSE Nothing) :
         LET c == [proc[p] EXCEPT !.add = @ \ {t}, !.due = r.due] IN
           Goes(p, IF r.got.trap THEN Idle ELSE IF c.add = {} THEN AfterAdds(c) ELSE c)
  BY DEF BanIP
<1>a. r.due \in SUBSET Reply /\ (r.due # {} => proc[p].due # {})
  BY <1>3, AnswersFields, OwnAnswers
<1>4. PICK d : d = [proc[p] EXCEPT !.add = @ \ {t}, !.due = r.due]
  OBVIOUS
<1>5. /\ d \in ProcRec /\ d.op = proc[p].op /\ d.pc = proc[p].pc /\ d.read = proc[p].read
      /\ d.late = proc[p].late /\ d.rem = proc[p].rem /\ d.ids = proc[p].ids
      /\ d.astray = proc[p].astray /\ d.due = r.due
  BY <1>3, <1>4, <1>a DEF ProcRec
<1>6. PICK c : c = IF r.got.trap THEN Idle ELSE IF d.add = {} THEN AfterAdds(d) ELSE d
  OBVIOUS
<1>7. RecInv(d)'
  BY <1>1, <1>2, <1>3, <1>5, <1>a, Forgets
<1>8. RecInv(c)' /\ c.op \in {d.op, "none"}
  <2>1. CASE c = Idle
    BY <2>1, IdleFields DEF RecInv, Placed, Checking, Reads, Decided
  <2>2. CASE c = d
    BY <1>7, <2>2
  <2>3. CASE /\ c \in ProcRec /\ c.op = d.op /\ d.op = "sync" /\ c.read = d.read /\ c.late = d.late
             /\ c.ids = d.ids /\ c.rem = d.rem /\ c.due = d.due /\ c.astray = d.astray
             /\ (d.read /\ c.pc = "remove") \/ (~ d.read /\ c.pc = "known")
    BY <1>1, <1>5, <1>7, <2>3 DEF RecInv, Placed, Checking, Reads, Decided
  <2> QED BY <1>5, <1>6, <2>1, <2>2, <2>3, AfterAddsFields
<1>9. proc' = [proc EXCEPT ![p] = c]
  BY <1>r, <1>4, <1>6 DEF Goes
<1>10. ASSUME NEW q \in Proc
       PROVE  RecInv(proc[q])'
  <2>1. CASE q = p
    <3>1. proc'[q] = c
      BY <1>9, <2>1 DEF SyncInv, TypeOK
    <3> QED BY <1>8, <3>1 DEF RecInv, Placed, Checking, Reads, Decided
  <2>2. CASE q # p
    <3>1. PICK e : e = proc[q]
      OBVIOUS
    <3>2. RecInv(e) /\ e \in ProcRec
      BY <3>1 DEF SyncInv, ProcInv, TypeOK
    <3>3. RecInv(e)'
      BY <1>1, <1>2, <3>2, Forgets
    <3>4. proc'[q] = e
      BY <1>9, <2>2, <3>1 DEF SyncInv, TypeOK
    <3> QED BY <3>3, <3>4 DEF RecInv, Placed, Checking, Reads, Decided
  <2> QED BY <2>1, <2>2
<1>11. PurgeInv'
  <2>1. Purge \in Proc
    BY DEF Proc
  <2> QED BY <1>5, <1>8, <1>9, <2>1 DEF SyncInv, PurgeInv, TypeOK
<1>12. list' \in [Target -> {"none", "operator", "tagged"}] /\ proc' \in [Proc -> ProcRec]
  BY <1>1, <1>8, <1>9 DEF SyncInv, TypeOK, RecInv
<1> QED BY <1>1, <1>10, <1>11, <1>12 DEF SyncInv, TypeOK, ProcInv, table
-----------------------------------------------------------------------------
(* The other steps. *)

\* A step that only moves p.
LEMMA MoveKeeps ==
    ASSUME SyncInv, NEW p \in Proc, NEW c, Goes(p, c), UNCHANGED <<table, list, device>>, RecInv(c),
           p = Purge => c.op \in {proc[p].op, "none", "purge"},
           changes' \in 0 .. MaxChanges, faults' \in 0 .. MaxFaults
    PROVE  SyncInv'
<1>1. ProcInv' /\ PurgeInv' /\ proc' \in [Proc -> ProcRec]
  BY OneMoves
<1> QED BY <1>1 DEF SyncInv, TypeOK, table

LEMMA FailsKeeps ==
    ASSUME SyncInv, NEW p \in Proc, Fails(p)
    PROVE  SyncInv'
<1>1. faults' \in 0 .. MaxFaults /\ changes' \in 0 .. MaxChanges
  BY ConstantsAssumption DEF Fails, SyncInv, TypeOK
<1> QED BY <1>1, MoveKeeps, IdleInv, IdleFields DEF Fails

LEMMA ConnectKeeps ==
    ASSUME SyncInv, NEW p \in Proc, Connect(p)
    PROVE  SyncInv'
<1>1. RecInv(proc[p]) /\ proc[p] \in ProcRec /\ proc[p].pc = "connect" /\ ~ proc[p].read
  BY DEF Connect, SyncInv, ProcInv, TypeOK, RecInv, Placed
<1>2. PICK k : k = CASE proc[p].op = "sync" -> "current" [] proc[p].op = "purge" -> "entries"
                     [] proc[p].op = "unban" -> "unban" [] OTHER -> "add"
  OBVIOUS
<1>3. /\ k \in {"current", "entries", "unban", "add"}
      /\ proc[p].op = "purge" => k = "entries"
  BY <1>2
<1>4. PICK d : d = [proc[p] EXCEPT !.pc = k]
  OBVIOUS
<1>5. /\ d \in ProcRec /\ d.op = proc[p].op /\ d.pc = k /\ d.read = proc[p].read
      /\ d.late = proc[p].late /\ d.rem = proc[p].rem /\ d.ids = proc[p].ids
      /\ d.astray = proc[p].astray /\ d.due = proc[p].due
  BY <1>1, <1>3, <1>4 DEF ProcRec, Places
<1>6. Placed(d)
  BY <1>1, <1>3, <1>5 DEF RecInv, Placed
<1>7. RecInv(d)
  BY <1>1, <1>3, <1>5, <1>6, Advances
<1>8. Goes(p, IF device = "deleted" THEN Idle ELSE d)
  BY <1>2, <1>4 DEF Connect
<1>9. UNCHANGED <<table, list, device, changes, faults>>
  BY DEF Connect
<1>10. CASE Goes(p, Idle)
  BY <1>9, <1>10, IdleInv, IdleFields, MoveKeeps DEF SyncInv, TypeOK
<1>11. CASE Goes(p, d)
  BY <1>5, <1>7, <1>9, <1>11, MoveKeeps DEF SyncInv, TypeOK
<1> QED BY <1>8, <1>10, <1>11

LEMMA FindKeeps ==
    ASSUME SyncInv, NEW p \in Proc, NEW t \in Target, FindEntry(p, t)
    PROVE  SyncInv'
<1>1. /\ RecInv(proc[p]) /\ proc[p] \in ProcRec /\ proc[p].pc = "unban" /\ t \in proc[p].rem
      /\ ~ proc[p].read /\ proc[p].op \notin {"purge", "none"}
  BY DEF FindEntry, SyncInv, ProcInv, TypeOK, RecInv, Placed
<1>o. PICK own : own = [Nothing EXCEPT !.names = Listed \cap {t}]
  OBVIOUS
<1>w. own \in Reply /\ own.names \subseteq {t}
  BY <1>o, OwnAnswers
<1>r. PICK r \in Answers(proc[p], own) :
         LET c == [proc[p] EXCEPT !.rem = @ \ {t}, !.due = r.due] IN
           Goes(p, IF r.got.names # {}
                     THEN [c EXCEPT !.pc = "remove", !.ids = r.got.names, !.astray = r.due # {}]
                   ELSE IF c.rem = {} THEN Idle ELSE c)
  BY <1>o DEF FindEntry
<1>a. /\ r.got \in Reply /\ r.due \in SUBSET Reply
      /\ r.due # {} => proc[p].due # {}
      /\ r.due = {} => r.got = own
  BY <1>1, <1>w, AnswersFields
<1>g. r.got.names \in SUBSET Target
  BY <1>a DEF Reply
<1>2. PICK c : c = [proc[p] EXCEPT !.rem = @ \ {t}, !.due = r.due]
  OBVIOUS
<1>3. /\ c \in ProcRec /\ c.op = proc[p].op /\ c.pc = "unban" /\ ~ c.read
      /\ c.late = proc[p].late /\ c.rem = proc[p].rem \ {t} /\ c.ids = proc[p].ids
      /\ c.due = r.due /\ c.astray = proc[p].astray
  BY <1>1, <1>2, <1>a DEF ProcRec
<1>b. PICK x \in BOOLEAN : x = (r.due # {})
  OBVIOUS
<1>4. PICK d : d = [c EXCEPT !.pc = "remove", !.ids = r.got.names, !.astray = x]
  OBVIOUS
<1>5. /\ d \in ProcRec /\ d.op = proc[p].op /\ d.pc = "remove" /\ ~ d.read
      /\ d.late = proc[p].late /\ d.rem = proc[p].rem \ {t} /\ d.ids = r.got.names
      /\ d.due = r.due /\ d.astray = x
  BY <1>3, <1>4, <1>g DEF ProcRec, Places
<1>6. RecInv(c) /\ RecInv(d)
  <2>1. RecInv(c)
    BY <1>1, <1>3, <1>a DEF RecInv, Placed, Checking, Reads, Decided
  <2>2. Placed(d) /\ Checking(d) /\ Reads(d)
    BY <1>1, <1>5, <1>a, <1>b DEF RecInv, Placed, Checking, Reads
  <2>3. \A u \in d.ids : u = t \/ d.astray
    BY <1>5, <1>a, <1>b, <1>w
  <2>4. Decided(d)
    BY <1>1, <1>5, <2>3 DEF RecInv, Decided
  <2> QED BY <1>5, <2>1, <2>2, <2>4 DEF RecInv
<1>7. Goes(p, d) \/ Goes(p, Idle) \/ Goes(p, c)
  BY <1>r, <1>2, <1>4, <1>b
<1>8. UNCHANGED <<table, list, device, changes, faults>>
  BY DEF FindEntry
<1>9. changes' \in 0 .. MaxChanges /\ faults' \in 0 .. MaxFaults
  BY <1>8 DEF SyncInv, TypeOK
<1> QED BY <1>3, <1>5, <1>6, <1>7, <1>8, <1>9, IdleInv, IdleFields, MoveKeeps

LEMMA RefusedKeeps ==
    ASSUME SyncInv, NEW p \in Proc, RemoveRefused(p)
    PROVE  SyncInv'
<1>1. RecInv(proc[p]) /\ proc[p] \in ProcRec /\ proc[p].pc = "remove" /\ proc[p].op \notin {"purge", "none"}
  BY DEF RemoveRefused, SyncInv, ProcInv, TypeOK, RecInv, Placed
<1>r. PICK r \in Answers(proc[p], Nothing) : Goes(p, AfterRemoval([proc[p] EXCEPT !.due = r.due]))
  BY DEF RemoveRefused
<1>a. r.due \in SUBSET Reply /\ (r.due # {} => proc[p].due # {})
  BY <1>1, AnswersFields, OwnAnswers
<1>2. PICK d : d = [proc[p] EXCEPT !.due = r.due]
  OBVIOUS
<1>3. /\ d \in ProcRec /\ d.op = proc[p].op /\ d.pc = proc[p].pc /\ d.read = proc[p].read
      /\ d.late = proc[p].late /\ d.rem = proc[p].rem /\ d.ids = proc[p].ids
      /\ d.astray = proc[p].astray /\ d.due = r.due
  BY <1>1, <1>2, <1>a DEF ProcRec
<1>4. RecInv(d)
  BY <1>1, <1>3, <1>a DEF RecInv, Placed, Checking, Reads, Decided
<1>5. PICK c : c = AfterRemoval(d)
  OBVIOUS
<1>6. RecInv(c) /\ c.op \in {proc[p].op, "none"}
  <2>1. CASE c = Idle
    BY <2>1, IdleInv, IdleFields
  <2>2. CASE c = d
    BY <1>3, <1>4, <2>2
  <2>3. CASE /\ c \in ProcRec /\ c.op = d.op /\ ~ d.read /\ c.read = d.read /\ c.late = d.late
             /\ c.ids = d.ids /\ c.rem = d.rem /\ c.due = d.due /\ c.astray = d.astray
             /\ c.pc = "unban"
    <3>1. Placed(c)
      BY <1>1, <1>3, <1>4, <2>3 DEF RecInv, Placed
    <3> QED BY <1>1, <1>3, <1>4, <2>3, <3>1, Advances
  <2> QED BY <1>3, <1>5, <2>1, <2>2, <2>3, AfterRemovalFields
<1>7. Goes(p, c) /\ UNCHANGED <<table, list, device, changes, faults>>
  BY <1>r, <1>2, <1>5 DEF RemoveRefused
<1> QED BY <1>6, <1>7, MoveKeeps DEF SyncInv, TypeOK

\* The lookup before a push: an unban goes on only for an address no longer wanted.
LEMMA CheckKeeps ==
    ASSUME SyncInv, NEW p \in Proc, PushCheck(p)
    PROVE  SyncInv'
<1>1. RecInv(proc[p]) /\ proc[p] \in ProcRec /\ proc[p].pc = "check" /\ p # Purge
  BY NotPurge DEF PushCheck, SyncInv, ProcInv, TypeOK
<1>2. PICK d : d = [proc[p] EXCEPT !.pc = "connect", !.late = {}]
  OBVIOUS
<1>3. /\ d \in ProcRec /\ d.op = proc[p].op /\ d.pc = "connect" /\ d.read = proc[p].read
      /\ d.rem = proc[p].rem /\ d.ids = proc[p].ids
      /\ d.due = proc[p].due /\ d.astray = proc[p].astray
  BY <1>1, <1>2 DEF ProcRec, Places
<1>4. /\ Goes(p, Idle) \/ (Goes(p, d) /\ (d.op = "unban" => \E t \in d.rem : ~ Wanted(t)))
      /\ UNCHANGED <<table, list, device, changes, faults>>
  BY <1>2, <1>3 DEF PushCheck, StillWanted
<1>5. CASE Goes(p, Idle)
  BY <1>1, <1>4, <1>5, IdleInv, IdleFields, MoveKeeps DEF SyncInv, TypeOK
<1>6. CASE Goes(p, d) /\ (d.op = "unban" => \E t \in d.rem : ~ Wanted(t))
  <2>1. \A t \in d.rem \cup d.ids : ~ Delivered(t)
    BY <1>1, <1>3, <1>6 DEF RecInv, Checking, Delivered
  <2>2. RecInv(d)
    BY <1>1, <1>3, <2>1 DEF RecInv, Placed, Checking, Reads, Decided
  <2> QED BY <1>1, <1>4, <1>6, <2>2, MoveKeeps DEF SyncInv, TypeOK
<1> QED BY <1>4, <1>5, <1>6

LEMMA StartKeeps ==
    ASSUME SyncInv, NEW p \in Sync, StartSync(p)
    PROVE  SyncInv'
<1>1. PICK d : d = [Idle EXCEPT !.op = "sync", !.pc = "connect"]
  OBVIOUS
<1>2. /\ d \in ProcRec /\ d.op = "sync" /\ d.pc = "connect" /\ d.rem = {} /\ d.ids = {}
      /\ ~ d.read /\ d.due = {} /\ ~ d.astray
  BY <1>1 DEF Idle, ProcRec, Ops, Places
<1>3. RecInv(d)
  BY <1>2 DEF RecInv, Placed, Checking, Reads, Decided
<1>4. Goes(p, d) /\ UNCHANGED <<table, list, device, faults>>
  BY <1>1 DEF StartSync
<1>5. changes' \in 0 .. MaxChanges /\ faults' \in 0 .. MaxFaults
  BY ConstantsAssumption DEF StartSync, Change, SyncInv, TypeOK
<1> QED BY <1>3, <1>4, <1>5, NotPurge, MoveKeeps

LEMMA ReadsKeep ==
    ASSUME SyncInv, NEW p \in Proc, ReadCurrent(p) \/ ReadEntries(p)
    PROVE  SyncInv'
<1>1. RecInv(proc[p]) /\ proc[p] \in ProcRec
  BY DEF SyncInv, ProcInv, TypeOK
<1>2. CASE ReadCurrent(p)
  <2>1. PICK d : d = [proc[p] EXCEPT !.pc = "entries", !.rem = Listed]
    OBVIOUS
  <2>2. /\ d \in ProcRec /\ d.op = proc[p].op /\ d.pc = "entries" /\ d.ids = proc[p].ids
        /\ d.read = proc[p].read /\ d.due = proc[p].due /\ d.astray = proc[p].astray
    BY <1>1, <2>1 DEF ProcRec, Places, Listed
  <2>3. proc[p].pc = "current" /\ Goes(p, d) /\ UNCHANGED <<table, list, device, changes, faults>>
    BY <1>2, <2>1 DEF ReadCurrent
  <2>4. RecInv(d)
    BY <1>1, <2>2, <2>3 DEF RecInv, Placed, Checking, Reads, Decided
  <2> QED BY <2>2, <2>3, <2>4, MoveKeeps DEF SyncInv, TypeOK
<1>3. CASE ReadEntries(p)
  <2>1. PICK d : d = [proc[p] EXCEPT !.pc = "delta", !.ids = Tagged, !.read = TRUE]
    OBVIOUS
  <2>2. PICK D : /\ D \in SUBSET Reply
                 /\ Goes(p, d) \/ Goes(p, [proc[p] EXCEPT !.pc = "delta", !.due = D])
    <3>1. CASE Goes(p, d)
      BY <3>1
    <3>2. CASE Goes(p, [proc[p] EXCEPT !.pc = "delta"])
      <4>1. [proc[p] EXCEPT !.pc = "delta"] = [proc[p] EXCEPT !.pc = "delta", !.due = proc[p].due]
        BY <1>1 DEF ProcRec
      <4>2. proc[p].due \in SUBSET Reply
        BY <1>1 DEF ProcRec
      <4> QED BY <3>2, <4>1, <4>2
    <3>3. ASSUME NEW S \in SUBSET Listed,
                 Goes(p, [proc[p] EXCEPT !.pc = "delta", !.due = {[Nothing EXCEPT !.names = S]}])
          PROVE  \E D \in SUBSET Reply : Goes(p, [proc[p] EXCEPT !.pc = "delta", !.due = D])
      <4>1. S \in SUBSET Target
        BY DEF Listed
      <4>2. {[Nothing EXCEPT !.names = S]} \in SUBSET Reply
        BY <4>1, OwnAnswers
      <4> QED BY <3>3, <4>2
    <3> QED BY <1>3, <2>1, <3>1, <3>2, <3>3 DEF ReadEntries
  <2>e. PICK e : e = [proc[p] EXCEPT !.pc = "delta", !.due = D]
    OBVIOUS
  <2>3. /\ d \in ProcRec /\ d.op = proc[p].op /\ d.pc = "delta" /\ d.ids = Tagged /\ d.read
        /\ d.due = proc[p].due /\ d.astray = proc[p].astray
        /\ e \in ProcRec /\ e.op = proc[p].op /\ e.pc = "delta" /\ e.ids = proc[p].ids
        /\ e.read = proc[p].read /\ e.astray = proc[p].astray
    BY <1>1, <2>1, <2>2, <2>e DEF ProcRec, Places, Tagged
  <2>4. /\ proc[p].pc = "entries" /\ proc[p].op = "sync" /\ (Goes(p, d) \/ Goes(p, e))
        /\ UNCHANGED <<table, list, device, changes>>
    BY <1>3, <2>2, <2>e DEF ReadEntries
  <2>5. faults' \in 0 .. MaxFaults /\ changes' \in 0 .. MaxChanges
    <3>1. faults' = faults \/ (faults < MaxFaults /\ faults' = faults + 1)
      BY <1>3 DEF ReadEntries
    <3> QED BY <2>4, <3>1, ConstantsAssumption DEF SyncInv, TypeOK
  <2>6. RecInv(d) /\ RecInv(e)
    BY <1>1, <2>3, <2>4 DEF RecInv, Placed, Checking, Reads, Decided, Tagged
  <2> QED BY <2>3, <2>4, <2>5, <2>6, MoveKeeps
<1> QED BY <1>2, <1>3

\* The delta: only what is not enforced now is left to remove.
LEMMA DeltaKeeps ==
    ASSUME SyncInv, NEW p \in Proc, ReadDelta(p)
    PROVE  SyncInv'
<1>1. RecInv(proc[p]) /\ proc[p] \in ProcRec /\ proc[p].pc = "delta"
  BY DEF ReadDelta, SyncInv, ProcInv, TypeOK
<1>2. PICK U : U = {t \in proc[p].rem : ~ Delivered(t)}
  OBVIOUS
<1>3. PICK d : d = [proc[p] EXCEPT !.pc = "add", !.add = Missing(proc[p].rem), !.rem = U,
                                   !.ids = @ \cap U, !.late = {}]
  OBVIOUS
<1>4. U \subseteq Target /\ Missing(proc[p].rem) \subseteq Target /\ \A t \in U : ~ Delivered(t)
  BY <1>1, <1>2 DEF ProcRec, Missing
<1>5. /\ d \in ProcRec /\ d.op = proc[p].op /\ d.pc = "add" /\ d.ids = proc[p].ids \cap U
      /\ d.read = proc[p].read /\ d.rem = U /\ d.due = proc[p].due /\ d.astray = proc[p].astray
  BY <1>1, <1>3, <1>4 DEF ProcRec, Places
<1>6. RecInv(d)
  BY <1>1, <1>4, <1>5 DEF RecInv, Placed, Checking, Reads, Decided
<1>7. Goes(p, IF d.add = {} THEN AfterAdds(d) ELSE d) /\ UNCHANGED <<table, list, device, changes, faults>>
  BY <1>2, <1>3 DEF ReadDelta
<1>8. PICK c : c = IF d.add = {} THEN AfterAdds(d) ELSE d
  OBVIOUS
<1>9. RecInv(c) /\ c.op \in {d.op, "none"}
  <2>1. CASE c = Idle
    BY <2>1, IdleInv, IdleFields
  <2>2. CASE c = d
    BY <1>6, <2>2
  <2>3. CASE /\ c \in ProcRec /\ c.op = d.op /\ d.op = "sync" /\ c.read = d.read /\ c.late = d.late
             /\ c.ids = d.ids /\ c.rem = d.rem /\ c.due = d.due /\ c.astray = d.astray
             /\ (d.read /\ c.pc = "remove") \/ (~ d.read /\ c.pc = "known")
    <3>1. Placed(c)
      BY <1>5, <1>6, <2>3 DEF RecInv, Placed
    <3> QED BY <1>5, <1>6, <2>3, <3>1, Advances
  <2> QED BY <1>5, <1>8, <2>1, <2>2, <2>3, AfterAddsFields
<1> QED BY <1>5, <1>7, <1>8, <1>9, MoveKeeps DEF SyncInv, TypeOK

LEMMA KnownKeeps ==
    ASSUME SyncInv, NEW p \in Proc, ReadKnown(p)
    PROVE  SyncInv'
<1>1. RecInv(proc[p]) /\ proc[p] \in ProcRec /\ proc[p].pc = "known"
  BY DEF ReadKnown, SyncInv, ProcInv, TypeOK
<1>2. PICK d : d = [proc[p] EXCEPT !.pc = "unban", !.rem = @ \cap known]
  OBVIOUS
<1>3. /\ d \in ProcRec /\ d.op = proc[p].op /\ d.pc = "unban" /\ d.ids = proc[p].ids
      /\ d.read = proc[p].read /\ d.late = proc[p].late /\ d.rem = proc[p].rem \cap known
      /\ d.due = proc[p].due /\ d.astray = proc[p].astray
  BY <1>1, <1>2 DEF ProcRec, Places
<1>4. Placed(d)
  BY <1>1, <1>3 DEF RecInv, Placed
<1>5. RecInv(d)
  BY <1>1, <1>3, <1>4, Advances
<1>6. (Goes(p, Idle) \/ Goes(p, d)) /\ UNCHANGED <<table, list, device, changes, faults>>
  BY <1>2 DEF ReadKnown
<1> QED BY <1>3, <1>5, <1>6, IdleInv, IdleFields, MoveKeeps DEF SyncInv, TypeOK

LEMMA TenantKeeps ==
    ASSUME SyncInv, DeleteTenant \/ PurgeRead \/ DeleteRows
    PROVE  SyncInv'
<1>0. Purge \in Proc
  BY DEF Proc
<1>1. CASE DeleteTenant
  <2>1. PICK d : d = [Idle EXCEPT !.op = "purge", !.pc = "connect"]
    OBVIOUS
  <2>2. /\ d \in ProcRec /\ d.op = "purge" /\ d.pc = "connect" /\ d.rem = {} /\ d.ids = {}
        /\ ~ d.read /\ d.due = {} /\ ~ d.astray
    BY <2>1 DEF Idle, ProcRec, Ops, Places
  <2>3. RecInv(d)
    BY <2>2 DEF RecInv, Placed, Checking, Reads, Decided
  <2>4. Goes(Purge, d) /\ UNCHANGED <<table, list, faults>> /\ device' = "deleting"
    BY <1>1, <2>1 DEF DeleteTenant
  <2>5. ProcInv' /\ PurgeInv' /\ proc' \in [Proc -> ProcRec]
    BY <1>0, <2>2, <2>3, <2>4, OneMoves
  <2>6. changes' \in 0 .. MaxChanges
    BY <1>1, ConstantsAssumption DEF DeleteTenant, Change, SyncInv, TypeOK
  <2> QED BY <2>4, <2>5, <2>6 DEF SyncInv, TypeOK, table
<1>2. CASE PurgeRead
  <2>1. PICK d : d = [proc[Purge] EXCEPT !.pc = "remove", !.ids = Tagged, !.rem = Tagged]
    OBVIOUS
  <2>2. RecInv(proc[Purge]) /\ proc[Purge] \in ProcRec /\ proc[Purge].pc = "entries" /\ proc[Purge].op = "purge"
    BY <1>0, <1>2 DEF PurgeRead, SyncInv, ProcInv, PurgeInv, TypeOK, RecInv, Placed
  <2>3. /\ d \in ProcRec /\ d.op = "purge" /\ d.pc = "remove" /\ d.ids = Tagged
        /\ d.read = proc[Purge].read /\ d.due = proc[Purge].due /\ d.astray = proc[Purge].astray
    BY <2>1, <2>2 DEF ProcRec, Places, Tagged
  <2>4. RecInv(d)
    BY <2>2, <2>3 DEF RecInv, Placed, Checking, Reads, Decided, Tagged
  <2>5. (Goes(Purge, Idle) \/ Goes(Purge, d)) /\ UNCHANGED <<table, list, device, changes, faults>>
    BY <1>2, <2>1 DEF PurgeRead
  <2> QED BY <1>0, <2>3, <2>4, <2>5, IdleInv, IdleFields, MoveKeeps DEF SyncInv, TypeOK
<1>3. CASE DeleteRows
  <2>1. faults' \in 0 .. MaxFaults /\ device' = "deleted" /\ UNCHANGED <<table, list, proc, changes>>
    BY <1>3, ConstantsAssumption DEF DeleteRows, SyncInv, TypeOK
  <2>2. \A t : Delivered(t)' = Delivered(t)
    BY <2>1 DEF table, Delivered, Wanted, Wants
  <2>3. ProcInv'
    BY <2>1, <2>2 DEF SyncInv, ProcInv, RecInv, Placed, Checking, Reads, Decided
  <2> QED BY <2>1, <2>3 DEF SyncInv, TypeOK, PurgeInv, table
<1> QED BY <1>1, <1>2, <1>3
-----------------------------------------------------------------------------
(* The theorems. *)

LEMMA InitSync == Init => SyncInv
<1> SUFFICES ASSUME Init PROVE SyncInv
  OBVIOUS
<1>1. proc \in [Proc -> ProcRec] /\ \A p \in Proc : proc[p] = Idle
  BY IdleFields DEF Init
<1>2. ProcInv
  BY <1>1, IdleInv DEF ProcInv
<1>3. PurgeInv
  BY <1>1, IdleFields DEF PurgeInv, Proc
<1>4. TypeOK
  BY <1>1, ConstantsAssumption DEF Init, TypeOK
<1> QED BY <1>2, <1>3, <1>4 DEF SyncInv

LEMMA NextSync == SyncInv /\ [Next]_vars => SyncInv'
<1> SUFFICES ASSUME SyncInv, [Next]_vars PROVE SyncInv'
  OBVIOUS
<1>1. CASE UNCHANGED vars
  <2>1. \A t : Delivered(t)' = Delivered(t)
    BY <1>1 DEF vars, Delivered, Wanted, Wants
  <2>2. ProcInv'
    BY <1>1, <2>1 DEF vars, SyncInv, ProcInv, RecInv, Placed, Checking, Reads, Decided
  <2> QED BY <1>1, <2>2 DEF vars, SyncInv, TypeOK, PurgeInv
<1>2. ASSUME NEW p \in Proc, Step(p)
      PROVE  SyncInv'
  BY <1>2, CheckKeeps, ConnectKeeps, BanIPKeeps, FindKeeps, RemoveKeeps, RefusedKeeps, ReadsKeep,
     DeltaKeeps, KnownKeeps DEF Step
<1> QED BY <1>1, <1>2, BanChangeKeeps, MassKeeps, ToggleKeeps, EditsKeep, StartKeeps, FailsKeeps,
           TenantKeeps, PurgeKeeps DEF Next

\* Every variable of RouterSync keeps its type, whatever the number of
\* addresses, pushes and syncs.
THEOREM TypeCorrect == Spec => []TypeOK
<1>1. SyncInv => TypeOK
  BY DEF SyncInv
<1> QED BY <1>1, InitSync, NextSync, PTL DEF Spec

\* "An unban never removes an address a router still needs for another active
\* ban": whatever pushes, fullSyncs, lifts, exclusions and whitelist changes
\* race, an address the tenant enforces is removed only by an operation that
\* decided before the ban came into force, or by a fullSync whose listing timed
\* out and that took another command's answer for that of unbanIP's print.
THEOREM NeededStays == Spec => NeededIsKept
<1>1. SyncInv => [\A p \in Push \cup Sync, t \in Target :
                    RemoveEntry(p, t) /\ Delivered(t) =>
                       \/ t \in proc[p].late
                       \/ proc[p].astray /\ proc[p].op = "sync" /\ ~ proc[p].read]_vars
  <2> SUFFICES ASSUME SyncInv, NEW p \in Push \cup Sync, NEW t \in Target, RemoveEntry(p, t), Delivered(t)
               PROVE  \/ t \in proc[p].late
                      \/ proc[p].astray /\ proc[p].op = "sync" /\ ~ proc[p].read
    OBVIOUS
  <2>1. RecInv(proc[p])
    BY NotPurge DEF SyncInv, ProcInv
  <2> QED BY <2>1 DEF RemoveEntry, RecInv, Decided, Placed
<1> QED BY <1>1, InitSync, NextSync, PTL DEF Spec, NeededIsKept

\* A fullSync that read the comments and the purge of a deleted tenant never
\* remove an operator's entry, not even one put in the place of a tagged entry
\* they had read: they remove by id, and an id is never used again.
THEOREM OperatorEntriesKept == Spec => OperatorEntriesStay
<1>1. SyncInv => [\A t \in Target :
                    /\ \A p \in Sync : RemoveEntry(p, t) /\ proc[p].read => list[t] = "tagged"
                    /\ PurgeRemove /\ list[t] = "operator" => list'[t] = "operator"]_vars
  <2> SUFFICES ASSUME SyncInv, NEW t \in Target
               PROVE  /\ \A p \in Sync : RemoveEntry(p, t) /\ proc[p].read => list[t] = "tagged"
                      /\ PurgeRemove /\ list[t] = "operator" => list'[t] = "operator"
    OBVIOUS
  <2>1. ASSUME NEW p \in Sync, RemoveEntry(p, t), proc[p].read
        PROVE  list[t] = "tagged"
    <3>1. RecInv(proc[p])
      BY NotPurge DEF SyncInv, ProcInv
    <3> QED BY <2>1, <3>1 DEF RemoveEntry, RecInv, Reads
  <2>2. ASSUME PurgeRemove, list[t] = "operator"
        PROVE  list'[t] = "operator"
    <3>1. RecInv(proc[Purge]) /\ proc[Purge].pc = "remove" /\ proc[Purge].op = "purge"
      BY <2>2 DEF PurgeRemove, SyncInv, ProcInv, PurgeInv, RecInv, Placed, Proc
    <3>2. PICK S \in SUBSET proc[Purge].ids : list' = [u \in Target |-> IF u \in S THEN "none" ELSE list[u]]
      BY <2>2 DEF PurgeRemove
    <3>3. t \notin S
      BY <2>2, <3>1, <3>2 DEF RecInv, Reads
    <3> QED BY <2>2, <3>2, <3>3
  <2> QED BY <2>1, <2>2
<1> QED BY <1>1, InitSync, NextSync, PTL DEF Spec, OperatorEntriesStay
=============================================================================
