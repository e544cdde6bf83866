------------------------------- MODULE UsageProofs -------------------------------
(***************************************************************************)
(* What Ledger promises about the usage of an account, for every set of    *)
(* uids, any limits and cadences and any number of crashes: a cooldown was *)
(* earned, and a limit is kept to within one tick's credit per payer.      *)
(* Both need that a shared pool's usage, a sum, grows with its members'.   *)
(***************************************************************************)
EXTENDS LedgerProofs, SumTheorems

------------------------------------------------------------------------------
\* The accounts, their payers and their usage in either pooling mode, p for the shared pool.

AccountsIn(p) == {IF p THEN Group ELSE u : u \in rule.members}
PayersIn(p, k) == {u \in rule.members : (IF p THEN Group ELSE u) = k}
ScopedUse(any, fg) == [u \in Uids |-> Scoped(any[u], fg[u])]
UsedIn(p, any, fg, k) == SumFunctionOnSet(ScopedUse(any, fg), PayersIn(p, k))

\* The mode in force is one of them.
LEMMA ModeInForce ==
    /\ TimeAccounts = AccountsIn(rule.pooled)
    /\ \A k : Payers(k) = PayersIn(rule.pooled, k)
    /\ \A any, fg, k : Used(any, fg, k) = UsedIn(rule.pooled, any, fg, k)
BY DEF TimeAccounts, TimeAccount, Payers, AccountsIn, PayersIn, Used, UsedIn, ScopedUse

LEMMA PayersAreFinite ==
    ASSUME TypeInv, NEW p, NEW k
    PROVE  /\ IsFiniteSet(PayersIn(p, k)) /\ PayersIn(p, k) \subseteq Uids
           /\ Cardinality(PayersIn(p, k)) \in Nat
<1>1. PayersIn(p, k) \subseteq Uids
  BY DEF PayersIn, TypeInv, RuleTypeOK, DurationRule
<1>2. IsFiniteSet(PayersIn(p, k))
  BY <1>1, LedgerAssumption, FS_Subset DEF LedgerAssumption
<1>. QED BY <1>1, <1>2, FS_CardinalityType

LEMMA ScopedIsNat ==
    ASSUME TypeInv, NEW any \in [Uids -> Nat], NEW fg \in [Uids -> Nat]
    PROVE  ScopedUse(any, fg) \in [Uids -> Nat]
<1>1. ASSUME NEW u \in Uids PROVE Scoped(any[u], fg[u]) \in Nat
  BY DEF Scoped
<1>. QED BY <1>1 DEF ScopedUse

LEMMA UsedIsNat ==
    ASSUME TypeInv, NEW any \in [Uids -> Nat], NEW fg \in [Uids -> Nat], NEW p, NEW k
    PROVE  UsedIn(p, any, fg, k) \in Nat
<1>1. \A u \in PayersIn(p, k) : ScopedUse(any, fg)[u] \in Nat
  BY PayersAreFinite, ScopedIsNat
<1>. QED BY <1>1, PayersAreFinite, SumIsNat DEF UsedIn

\* Payers who gain at most c each gain at most c for each of them together.
LEMMA UsedGrows ==
    ASSUME TypeInv, NEW any \in [Uids -> Nat], NEW fg \in [Uids -> Nat],
           NEW any2 \in [Uids -> Nat], NEW fg2 \in [Uids -> Nat], NEW p, NEW k, NEW c \in Nat,
           \A u \in PayersIn(p, k) : Scoped(any2[u], fg2[u]) <= Scoped(any[u], fg[u]) + c
    PROVE  UsedIn(p, any2, fg2, k) <= UsedIn(p, any, fg, k) + c * Cardinality(PayersIn(p, k))
<1>1. PayersIn(p, k) \subseteq Uids /\ IsFiniteSet(PayersIn(p, k))
  BY PayersAreFinite
<1>2. ASSUME NEW u \in PayersIn(p, k)
      PROVE  /\ ScopedUse(any, fg)[u] \in Nat /\ ScopedUse(any2, fg2)[u] \in Nat
             /\ ScopedUse(any2, fg2)[u] <= ScopedUse(any, fg)[u] + c
  <2>1. ScopedUse(any, fg)[u] \in Nat /\ ScopedUse(any2, fg2)[u] \in Nat
    BY <1>1, ScopedIsNat
  <2>2. /\ ScopedUse(any, fg)[u] = Scoped(any[u], fg[u])
        /\ ScopedUse(any2, fg2)[u] = Scoped(any2[u], fg2[u])
    BY <1>1 DEF ScopedUse
  <2>. QED BY <2>1, <2>2
<1>. QED BY <1>1, <1>2, SumGrowth DEF UsedIn

LEMMA UsedNoLess ==
    ASSUME TypeInv, NEW any \in [Uids -> Nat], NEW fg \in [Uids -> Nat],
           NEW any2 \in [Uids -> Nat], NEW fg2 \in [Uids -> Nat], NEW p, NEW k,
           \A u \in PayersIn(p, k) : Scoped(any2[u], fg2[u]) <= Scoped(any[u], fg[u])
    PROVE  UsedIn(p, any2, fg2, k) <= UsedIn(p, any, fg, k)
<1>1. \A u \in PayersIn(p, k) : Scoped(any2[u], fg2[u]) <= Scoped(any[u], fg[u]) + 0
  <2>1. ASSUME NEW u \in PayersIn(p, k) PROVE Scoped(any[u], fg[u]) \in Nat
    BY PayersAreFinite, ScopedIsNat DEF ScopedUse
  <2>. QED BY <2>1
<1>2. UsedIn(p, any2, fg2, k) <= UsedIn(p, any, fg, k) + 0 * Cardinality(PayersIn(p, k))
  BY <1>1, UsedGrows
<1>. QED BY <1>2, UsedIsNat, PayersAreFinite

------------------------------------------------------------------------------
\* What one tick does to one uid's usage.

\* A credit of at most e to either count adds at most e, and takes nothing as long as what
\* is credited to the foreground is credited to the total.
LEMMA ScopedCredit ==
    ASSUME NEW any \in Nat, NEW fg \in Nat, NEW x \in Nat, NEW y \in Nat, NEW e \in Nat,
           x <= e, y <= e
    PROVE  /\ Scoped(any + x, fg + y) <= Scoped(any, fg) + e
           /\ y <= x \/ rule.scope = "foreground" => Scoped(any, fg) <= Scoped(any + x, fg + y)
BY DEF Scoped

LEMMA SnapshotsAre ==
    ASSUME NEW s \in Snapshots
    PROVE  /\ s[1] \subseteq MayRun /\ s[2] \subseteq MayRun
           /\ s[2] \subseteq s[1] \/ rule.scope = "foreground"
BY DEF Snapshots

Gain(u, uids) == IF u \in uids THEN Elapsed ELSE 0

LEMMA CreditOf ==
    ASSUME NEW usage \in [Uids -> Nat], NEW uids, NEW u \in rule.members, u \in Uids,
           TimeAccount(u) \notin Ended
    PROVE  Settled(Credited(usage, uids))[u] = AfterReset(usage)[u] + Gain(u, uids)
BY DEF Settled, Credited, Gain

\* A tick that does not reset the day and ends no cooldown of k leaves each of its payers
\* with what was used before and at most one credit.
LEMMA TickAdds ==
    ASSUME TypeInv, ~NewDay, NEW s \in Snapshots, NEW k \in TimeAccounts, k \notin Ended,
           NEW u \in Payers(k),
           NEW any, any = Settled(Credited(usageAny, s[1])),
           NEW fg, fg = Settled(Credited(usageFg, s[2]))
    PROVE  /\ Scoped(any[u], fg[u]) <= Scoped(usageAny[u], usageFg[u]) + Elapsed
           /\ Scoped(usageAny[u], usageFg[u]) <= Scoped(any[u], fg[u])
           /\ u \in blocked \/ Elapsed = 0 =>
                Scoped(any[u], fg[u]) <= Scoped(usageAny[u], usageFg[u])
<1>1. u \in rule.members /\ u \in Uids /\ TimeAccount(u) \notin Ended
  BY DEF Payers, TypeInv, RuleTypeOK, DurationRule
<1>2. usageAny \in [Uids -> Nat] /\ usageFg \in [Uids -> Nat]
  BY DEF TypeInv, TypeOK
<1>3. any[u] = usageAny[u] + Gain(u, s[1]) /\ fg[u] = usageFg[u] + Gain(u, s[2])
  BY <1>1, <1>2, CreditOf DEF AfterReset
<1>4. /\ Elapsed \in Nat /\ Gain(u, s[1]) \in {0, Elapsed} /\ Gain(u, s[2]) \in {0, Elapsed}
      /\ Gain(u, s[2]) <= Gain(u, s[1]) \/ rule.scope = "foreground"
  BY ElapsedIsNat, SnapshotsAre DEF Gain
<1>5. u \in blocked => Gain(u, s[1]) = 0 /\ Gain(u, s[2]) = 0
  BY SnapshotsAre DEF Gain, MayRun
<1>6. usageAny[u] \in Nat /\ usageFg[u] \in Nat
  BY <1>1, <1>2
<1>7. /\ Scoped(any[u], fg[u]) <= Scoped(usageAny[u], usageFg[u]) + Elapsed
      /\ Scoped(usageAny[u], usageFg[u]) <= Scoped(any[u], fg[u])
  <2>1. PICK x \in Nat, y \in Nat :
            /\ x = Gain(u, s[1]) /\ y = Gain(u, s[2]) /\ x <= Elapsed /\ y <= Elapsed
            /\ y <= x \/ rule.scope = "foreground"
    BY <1>4
  <2>. QED BY <1>3, <1>4, <1>6, <2>1, ScopedCredit
<1>8. ASSUME u \in blocked \/ Elapsed = 0
      PROVE  Scoped(any[u], fg[u]) <= Scoped(usageAny[u], usageFg[u])
  <2>1. any[u] = usageAny[u] /\ fg[u] = usageFg[u]
    BY <1>3, <1>4, <1>5, <1>6, <1>8
  <2>2. Scoped(usageAny[u], usageFg[u]) \in Nat
    BY <1>6 DEF Scoped
  <2>. QED BY <2>1, <2>2
<1>. QED BY <1>7, <1>8

LEMMA ElapsedAtMost ==
    ASSUME TypeInv
    PROVE  Elapsed \in Nat /\ Elapsed <= MaxTick
BY LedgerAssumption DEF LedgerAssumption, TypeInv, TypeOK, Elapsed, Never

\* Whether the payers of an account may run until the next tick, as far as it goes, and
\* what that tick may then credit to each of them.
Free(k) == lastTick # Never /\ ~(Payers(k) \subseteq blocked)
Due(k) == IF Free(k) THEN Elapsed ELSE 0

LEMMA DueAtMost ==
    ASSUME TypeInv, NEW k
    PROVE  Due(k) \in Nat /\ Due(k) <= MaxTick
BY ElapsedAtMost, LedgerAssumption DEF LedgerAssumption, Due

\* What follows for the account.
LEMMA TickAddsToAccount ==
    ASSUME TypeInv, ~NewDay, NEW s \in Snapshots, NEW k \in TimeAccounts, k \notin Ended,
           NEW any, any = Settled(Credited(usageAny, s[1])),
           NEW fg, fg = Settled(Credited(usageFg, s[2]))
    PROVE  /\ Used(any, fg, k) <= Used(usageAny, usageFg, k) + Due(k) * Cardinality(Payers(k))
           /\ Used(usageAny, usageFg, k) <= Used(any, fg, k)
<1>1. /\ usageAny \in [Uids -> Nat] /\ usageFg \in [Uids -> Nat]
      /\ any \in [Uids -> Nat] /\ fg \in [Uids -> Nat] /\ Due(k) \in Nat
  BY CreditedType, DueAtMost DEF TypeInv, TypeOK
<1>2. ASSUME NEW u \in PayersIn(rule.pooled, k)
      PROVE  /\ Scoped(any[u], fg[u]) <= Scoped(usageAny[u], usageFg[u]) + Due(k)
             /\ Scoped(usageAny[u], usageFg[u]) <= Scoped(any[u], fg[u])
  <2>1. u \in Payers(k)
    BY <1>2, ModeInForce
  <2>2. CASE Free(k)
    BY <2>1, <2>2, TickAdds DEF Due
  <2>3. CASE ~Free(k)
    <3>1. Due(k) = 0 /\ (u \in blocked \/ Elapsed = 0)
      BY <2>1, <2>3 DEF Due, Free, Elapsed
    <3>2. Scoped(usageAny[u], usageFg[u]) \in Nat
      BY <1>1, <1>2, PayersAreFinite, ScopedIsNat DEF ScopedUse
    <3>3. /\ Scoped(any[u], fg[u]) <= Scoped(usageAny[u], usageFg[u])
          /\ Scoped(usageAny[u], usageFg[u]) <= Scoped(any[u], fg[u])
      BY <2>1, <3>1, TickAdds
    <3>. QED BY <3>1, <3>2, <3>3
  <2>. QED BY <2>2, <2>3
<1>3. UsedIn(rule.pooled, any, fg, k)
        <= UsedIn(rule.pooled, usageAny, usageFg, k)
             + Due(k) * Cardinality(PayersIn(rule.pooled, k))
  BY <1>1, <1>2, UsedGrows
<1>4. UsedIn(rule.pooled, usageAny, usageFg, k) <= UsedIn(rule.pooled, any, fg, k)
  BY <1>1, <1>2, UsedNoLess
<1>. QED BY <1>3, <1>4, ModeInForce

------------------------------------------------------------------------------
\* Cooldowns.

\* In mode p, each cooldown of cool was earned by the usage beside it, and there are none.
EarnedIn(p, cool, any, fg) ==
    \A k \in AccountsIn(p) :
        cool[k] # 0 => UsedIn(p, any, fg, k) >= Limit /\ cool[k] <= now + rule.freeze

NoneIn(p, cool) == \A k \in AccountsIn(p) : cool[k] = 0

FileEarned(p) ==
    disk = NoFile \/ EarnedIn(p, disk.coolUntil, disk.usageAny, disk.usageFg)
FileNone(p) == disk = NoFile \/ NoneIn(p, disk.coolUntil)

\* A crash may bring back what the file holds for the mode in force.  Before the first
\* crash the file is right for both modes, and with fewer than two toggles for the one in
\* force, whatever crashes: it was saved in that mode, or holds nothing for it.
EarnInv ==
    /\ CooldownsAreEarned
    /\ crashes = 0 \/ (pc = "down" /\ crashes = 1) => FileEarned(TRUE) /\ FileEarned(FALSE)
    /\ toggles = 0 => NoneIn(~rule.pooled, coolUntil) /\ FileNone(~rule.pooled)
    /\ toggles <= 1 => FileEarned(rule.pooled)

\* CooldownsAreEarned speaks of the mode in force.
LEMMA EarnedInForce ==
    CooldownsAreEarned
      <=> (crashes <= 1 \/ toggles <= 1
             => EarnedIn(rule.pooled, coolUntil, usageAny, usageFg))
BY ModeInForce DEF CooldownsAreEarned, EarnedIn, UsedUp

\* A tick keeps only earned cooldowns, and begins only such.
LEMMA TickEarns ==
    ASSUME TypeInv, NEW s \in Snapshots,
           EarnedIn(rule.pooled, coolUntil, usageAny, usageFg),
           NEW any, any = Settled(Credited(usageAny, s[1])),
           NEW fg, fg = Settled(Credited(usageFg, s[2]))
    PROVE  EarnedIn(rule.pooled, Cooldowns(any, fg), any, fg)
<1>. DEFINE cool == Cooldowns(any, fg)
<1>1. SUFFICES ASSUME NEW k \in TimeAccounts, cool[k] # 0
               PROVE  UsedUp(any, fg, k) /\ cool[k] <= now + rule.freeze
  BY ModeInForce DEF EarnedIn, UsedUp
<1>2. now \in Nat /\ rule.freeze \in Nat /\ coolUntil \in [Accounts -> Nat] /\ k \in Accounts
  BY DEF TypeInv, TypeOK, RuleTypeOK, DurationRule, TimeAccounts, TimeAccount, Accounts
<1>3. CASE rule.freeze > 0 /\ (AfterReset(coolUntil)[k] = 0 \/ k \in Ended)
  <2>1. cool[k] = IF UsedUp(any, fg, k) THEN now + rule.freeze ELSE 0
    BY <1>2, <1>3 DEF Cooldowns
  <2>. QED BY <1>1, <1>2, <2>1
<1>4. CASE ~(rule.freeze > 0 /\ (AfterReset(coolUntil)[k] = 0 \/ k \in Ended))
  <2>1. cool[k] = AfterReset(coolUntil)[k]
    BY <1>2, <1>4 DEF Cooldowns
  <2>2. ~NewDay /\ cool[k] = coolUntil[k]
    BY <1>1, <1>2, <2>1 DEF AfterReset
  <2>3. k \notin Ended
    BY <1>4 DEF Ended
  <2>4. UsedUp(usageAny, usageFg, k) /\ coolUntil[k] <= now + rule.freeze
    BY <1>1, <2>2, ModeInForce DEF EarnedIn, UsedUp
  <2>5. Used(usageAny, usageFg, k) <= Used(any, fg, k)
    BY <2>2, <2>3, TickAddsToAccount
  <2>6. Used(usageAny, usageFg, k) \in Nat /\ Used(any, fg, k) \in Nat /\ Limit \in Nat
    <3>1. /\ usageAny \in [Uids -> Nat] /\ usageFg \in [Uids -> Nat]
          /\ any \in [Uids -> Nat] /\ fg \in [Uids -> Nat]
      BY CreditedType DEF TypeInv, TypeOK
    <3>. QED BY <3>1, UsedIsNat, ModeInForce, LedgerAssumption DEF LedgerAssumption
  <2>. QED BY <2>2, <2>4, <2>5, <2>6 DEF UsedUp
<1>. QED BY <1>3, <1>4

LEMMA TickKeepsEarned ==
    ASSUME TypeInv, EarnInv, NEW s \in Snapshots, TickBegins(s[1], s[2])
    PROVE  EarnInv'
<1>1. /\ rule' = rule /\ now' = now /\ disk' = disk /\ crashes' = crashes
      /\ toggles' = toggles /\ pc' = "decided"
      /\ usageAny' = Settled(Credited(usageAny, s[1]))
      /\ usageFg' = Settled(Credited(usageFg, s[2]))
      /\ coolUntil' = Cooldowns(usageAny', usageFg')
  BY DEF TickBegins
<1>2. CooldownsAreEarned'
  <2>1. SUFFICES ASSUME crashes <= 1 \/ toggles <= 1
                 PROVE  EarnedIn(rule.pooled, coolUntil, usageAny, usageFg)'
    BY <1>1, EarnedInForce
         DEF CooldownsAreEarned, EarnedIn, UsedUp, Used, UsedIn, ScopedUse, Scoped, Payers,
             PayersIn, TimeAccounts, AccountsIn, TimeAccount
  <2>2. EarnedIn(rule.pooled, coolUntil, usageAny, usageFg)
    BY <2>1, EarnedInForce DEF EarnInv
  <2>3. PICK any, fg : any = usageAny' /\ fg = usageFg'
    OBVIOUS
  <2>4. EarnedIn(rule.pooled, Cooldowns(any, fg), any, fg)
    BY <1>1, <2>2, <2>3, TickEarns
  <2>. QED BY <1>1, <2>3, <2>4 DEF EarnedIn, UsedIn, ScopedUse, Scoped, PayersIn, AccountsIn
<1>3. FileEarned(TRUE)' = FileEarned(TRUE) /\ FileEarned(FALSE)' = FileEarned(FALSE)
  BY <1>1 DEF FileEarned, EarnedIn, UsedIn, ScopedUse, Scoped, PayersIn, AccountsIn
<1>4. FileEarned(rule.pooled)' = FileEarned(rule.pooled)
  BY <1>1 DEF FileEarned, EarnedIn, UsedIn, ScopedUse, Scoped, PayersIn, AccountsIn
<1>5. FileNone(~rule.pooled)' = FileNone(~rule.pooled)
  BY <1>1 DEF FileNone, NoneIn, AccountsIn
<1>6. ASSUME toggles = 0 PROVE NoneIn(~rule.pooled, coolUntil)'
  <2>1. SUFFICES ASSUME NEW k \in AccountsIn(~rule.pooled) PROVE coolUntil'[k] = 0
    BY <1>1 DEF NoneIn, AccountsIn
  <2>2. k \in Accounts \ TimeAccounts
    BY LedgerAssumption DEF LedgerAssumption, AccountsIn, TimeAccounts, TimeAccount, Accounts,
                            TypeInv, RuleTypeOK, DurationRule
  <2>3. coolUntil[k] = 0
    BY <1>6, <2>1 DEF EarnInv, NoneIn
  <2>4. coolUntil'[k] = AfterReset(coolUntil)[k]
    BY <1>1, <2>2 DEF Cooldowns
  <2>. QED BY <2>2, <2>3, <2>4 DEF AfterReset, TypeInv, TypeOK
<1>. QED BY <1>1, <1>2, <1>3, <1>4, <1>5, <1>6 DEF EarnInv

\* Steps that leave the counters alone and the clock or the phase only may change.
LEMMA QuietKeepsEarned ==
    ASSUME TypeInv, EarnInv, rule' = rule, disk' = disk, crashes' = crashes, toggles' = toggles,
           usageAny' = usageAny, usageFg' = usageFg, coolUntil' = coolUntil,
           now' \in Nat, now <= now', pc' = "down" => pc = "down"
    PROVE  EarnInv'
<1>1. ASSUME NEW p, NEW any, NEW fg, NEW cool \in [Accounts -> Nat],
             EarnedIn(p, cool, any, fg)
      PROVE  EarnedIn(p, cool, any, fg)'
  <2>1. SUFFICES ASSUME NEW k \in AccountsIn(p), cool[k] # 0
                 PROVE  UsedIn(p, any, fg, k) >= Limit /\ cool[k] <= now' + rule.freeze
    BY DEF EarnedIn, UsedIn, ScopedUse, Scoped, PayersIn, AccountsIn
  <2>2. UsedIn(p, any, fg, k) >= Limit /\ cool[k] <= now + rule.freeze
    BY <1>1, <2>1 DEF EarnedIn
  <2>3. cool[k] \in Nat /\ now \in Nat /\ rule.freeze \in Nat
    BY <1>1, <2>1 DEF AccountsIn, Accounts, TypeInv, TypeOK, RuleTypeOK, DurationRule
  <2>. QED BY <2>2, <2>3
<1>2. ASSUME NEW p, FileEarned(p) PROVE FileEarned(p)'
  BY <1>1, <1>2 DEF FileEarned, TypeInv, DiskTypeOK
<1>3. CooldownsAreEarned'
  <2>1. SUFFICES ASSUME crashes <= 1 \/ toggles <= 1
                 PROVE  EarnedIn(rule.pooled, coolUntil, usageAny, usageFg)'
    BY DEF CooldownsAreEarned, EarnedIn, UsedUp, Used, UsedIn, ScopedUse, Scoped, Payers,
             PayersIn, TimeAccounts, AccountsIn, TimeAccount
  <2>2. EarnedIn(rule.pooled, coolUntil, usageAny, usageFg)
    BY <2>1, EarnedInForce DEF EarnInv
  <2>. QED BY <1>1, <2>2 DEF TypeInv, TypeOK, EarnedIn
<1>4. (NoneIn(~rule.pooled, coolUntil) /\ FileNone(~rule.pooled))'
        = (NoneIn(~rule.pooled, coolUntil) /\ FileNone(~rule.pooled))
  BY DEF FileNone, NoneIn, AccountsIn
<1>. QED BY <1>2, <1>3, <1>4 DEF EarnInv

LEMMA NoneIsEarned ==
    ASSUME NEW p, NEW cool, NEW any, NEW fg, NoneIn(p, cool)
    PROVE  EarnedIn(p, cool, any, fg)
BY DEF NoneIn, EarnedIn

\* What memory holds, and what it holds for the mode that is not in force.
LEMMA MemoryEarned ==
    ASSUME TypeInv, EarnInv, LingerInv
    PROVE  /\ crashes <= 1 \/ toggles <= 1 => EarnedIn(rule.pooled, coolUntil, usageAny, usageFg)
           /\ crashes = 0 => EarnedIn(TRUE, coolUntil, usageAny, usageFg)
                             /\ EarnedIn(FALSE, coolUntil, usageAny, usageFg)
<1>1. crashes <= 1 \/ toggles <= 1 => EarnedIn(rule.pooled, coolUntil, usageAny, usageFg)
  BY EarnedInForce DEF EarnInv
<1>2. ASSUME crashes = 0, NEW p \in BOOLEAN, p # rule.pooled
      PROVE  EarnedIn(p, coolUntil, usageAny, usageFg)
  <2>1. ASSUME NEW k \in AccountsIn(p) PROVE k \in Accounts \ TimeAccounts
    BY <1>2, LedgerAssumption DEF LedgerAssumption, AccountsIn, TimeAccounts, TimeAccount, Accounts,
                            TypeInv, RuleTypeOK, DurationRule
  <2>2. NoneIn(p, coolUntil)
    BY <1>2, <2>1 DEF LingerInv, NoCooldownLingers, NoneIn
  <2>. QED BY <2>2, NoneIsEarned
<1>3. ASSUME crashes = 0, NEW p \in BOOLEAN
      PROVE  EarnedIn(p, coolUntil, usageAny, usageFg)
  <2>1. CASE p = rule.pooled
    BY <1>1, <1>3, <2>1
  <2>2. CASE p # rule.pooled
    BY <1>2, <1>3, <2>2
  <2>. QED BY <2>1, <2>2
<1>. QED BY <1>1, <1>3

LEMMA SaveKeepsEarned ==
    ASSUME TypeInv, EarnInv, LingerInv, TickSaves
    PROVE  EarnInv'
<1>1. /\ rule' = rule /\ now' = now /\ crashes' = crashes /\ toggles' = toggles
      /\ usageAny' = usageAny /\ usageFg' = usageFg /\ coolUntil' = coolUntil
      /\ disk' = Snapshot /\ pc' = "ready"
  BY DEF TickSaves, TickEndsWith, counters
<1>2. /\ disk'.coolUntil = coolUntil /\ disk'.usageAny = usageAny /\ disk'.usageFg = usageFg
  BY <1>1 DEF Snapshot
<1>3. ASSUME NEW p, EarnedIn(p, coolUntil, usageAny, usageFg)
      PROVE  FileEarned(p)'
  BY <1>1, <1>2, <1>3 DEF FileEarned, EarnedIn, UsedIn, ScopedUse, Scoped, PayersIn, AccountsIn
<1>4. CooldownsAreEarned' = CooldownsAreEarned
  BY <1>1 DEF CooldownsAreEarned, UsedUp, Used, Scoped, Payers, TimeAccounts, TimeAccount
<1>5. ASSUME toggles = 0
      PROVE  NoneIn(~rule.pooled, coolUntil)' /\ FileNone(~rule.pooled)'
  BY <1>1, <1>2, <1>5 DEF EarnInv, FileNone, NoneIn, AccountsIn
<1>6. ASSUME toggles <= 1 PROVE FileEarned(rule.pooled)'
  BY <1>1, <1>3, <1>6, MemoryEarned DEF FileEarned
<1>7. ASSUME crashes = 0 PROVE FileEarned(TRUE)' /\ FileEarned(FALSE)'
  BY <1>3, <1>7, MemoryEarned
<1>. QED BY <1>1, <1>4, <1>5, <1>6, <1>7 DEF EarnInv

LEMMA CrashKeepsEarned ==
    ASSUME TypeInv, EarnInv, Crash
    PROVE  EarnInv'
<1>1. /\ rule' = rule /\ now' = now /\ toggles' = toggles /\ disk' = disk /\ pc' = "down"
      /\ crashes' = crashes + 1 /\ crashes \in Nat /\ coolUntil' = NoEntries
  BY LedgerAssumption DEF LedgerAssumption, Crash, TypeInv, TypeOK
<1>2. \A k \in Accounts : coolUntil'[k] = 0
  BY <1>1 DEF NoEntries
<1>3. \A p : AccountsIn(p) \subseteq Accounts /\ AccountsIn(p)' = AccountsIn(p)
  BY <1>1 DEF AccountsIn, Accounts, TypeInv, RuleTypeOK, DurationRule
<1>4. TimeAccounts' \subseteq Accounts
  BY <1>1, <1>3, ModeInForce DEF TimeAccounts, TimeAccount
<1>5. CooldownsAreEarned' /\ NoneIn(~rule.pooled, coolUntil)'
  BY <1>1, <1>2, <1>3, <1>4 DEF CooldownsAreEarned, NoneIn
<1>6. FileEarned(TRUE)' = FileEarned(TRUE) /\ FileEarned(FALSE)' = FileEarned(FALSE)
  BY <1>1 DEF FileEarned, EarnedIn, UsedIn, ScopedUse, Scoped, PayersIn, AccountsIn
<1>7. FileNone(~rule.pooled)' = FileNone(~rule.pooled)
  BY <1>1 DEF FileNone, NoneIn, AccountsIn
<1>8. FileEarned(rule.pooled)' = FileEarned(rule.pooled)
  BY <1>1 DEF FileEarned, EarnedIn, UsedIn, ScopedUse, Scoped, PayersIn, AccountsIn
<1>9. crashes' # 0 /\ (crashes' = 1 => crashes = 0)
  BY <1>1
<1>. QED BY <1>1, <1>5, <1>6, <1>7, <1>8, <1>9 DEF EarnInv

LEMMA RestartKeepsEarned ==
    ASSUME TypeInv, EarnInv, LingerInv, Restart
    PROVE  EarnInv'
<1>1. /\ rule' = rule /\ now' = now /\ toggles' = toggles /\ crashes' = crashes
      /\ disk' = disk /\ pc = "down" /\ pc' = "ready" /\ crashes # 0
  BY DEF Restart, LingerInv
<1>2. FileEarned(rule.pooled)' = FileEarned(rule.pooled)
  BY <1>1 DEF FileEarned, EarnedIn, UsedIn, ScopedUse, Scoped, PayersIn, AccountsIn
<1>3. FileNone(~rule.pooled)' = FileNone(~rule.pooled)
  BY <1>1 DEF FileNone, NoneIn, AccountsIn
<1>4. crashes <= 1 \/ toggles <= 1 => FileEarned(rule.pooled)
  <2>1. CASE toggles <= 1
    BY <2>1 DEF EarnInv
  <2>2. CASE crashes <= 1
    <3>1. crashes = 1
      BY <1>1, <2>2 DEF LingerInv
    <3>2. FileEarned(TRUE) /\ FileEarned(FALSE)
      BY <1>1, <3>1 DEF EarnInv
    <3>3. rule.pooled \in BOOLEAN
      BY DEF TypeInv, RuleTypeOK, DurationRule
    <3>4. rule.pooled = TRUE \/ rule.pooled = FALSE
      BY <3>3
    <3>. QED BY <3>2, <3>4
  <2>. QED BY <2>1, <2>2
<1>5. CASE Restorable
  <2>1. /\ usageAny' = disk.usageAny /\ usageFg' = disk.usageFg /\ coolUntil' = disk.coolUntil
        /\ disk # NoFile
    BY <1>5 DEF Restart, Restorable
  <2>2. CooldownsAreEarned'
    BY <1>1, <1>4, <2>1
       DEF CooldownsAreEarned, FileEarned, EarnedIn, UsedUp, Used, UsedIn, ScopedUse, Scoped,
           Payers, PayersIn, TimeAccounts, AccountsIn, TimeAccount
  <2>3. toggles = 0 => NoneIn(~rule.pooled, coolUntil)'
    BY <1>1, <2>1 DEF EarnInv, FileNone, NoneIn, AccountsIn
  <2>. QED BY <1>1, <1>2, <1>3, <2>2, <2>3 DEF EarnInv
<1>6. CASE ~Restorable
  <2>1. usageAny' = usageAny /\ usageFg' = usageFg /\ coolUntil' = coolUntil
    BY <1>6 DEF Restart
  <2>2. CooldownsAreEarned' = CooldownsAreEarned
    BY <1>1, <2>1 DEF CooldownsAreEarned, UsedUp, Used, Scoped, Payers, TimeAccounts, TimeAccount
  <2>3. NoneIn(~rule.pooled, coolUntil)' = NoneIn(~rule.pooled, coolUntil)
    BY <1>1, <2>1 DEF NoneIn, AccountsIn
  <2>. QED BY <1>1, <1>2, <1>3, <2>2, <2>3 DEF EarnInv
<1>. QED BY <1>5, <1>6

LEMMA ToggleKeepsEarned ==
    ASSUME TypeInv, EarnInv, LingerInv, ToggleSharedPool
    PROVE  EarnInv'
<1>1. /\ rule' = [rule EXCEPT !.pooled = ~@] /\ rule \in DurationRule
      /\ now' = now /\ disk' = disk /\ crashes' = crashes /\ toggles' = toggles + 1
      /\ toggles \in Nat /\ pc = "ready" /\ pc' = "ready"
  BY LedgerAssumption
     DEF LedgerAssumption, ToggleSharedPool, Serving, TypeInv, TypeOK, RuleTypeOK
<1>2. /\ rule'.members = rule.members /\ rule'.scope = rule.scope /\ rule'.freeze = rule.freeze
      /\ rule'.pooled = ~rule.pooled
  BY <1>1 DEF DurationRule
<1>3. \A k \in Accounts : coolUntil'[k] = 0
  BY DEF ToggleSharedPool, ForgottenByToggle, Accounts
<1>4. TimeAccounts' \subseteq Accounts
  BY <1>1, <1>2 DEF TimeAccounts, TimeAccount, Accounts, DurationRule
<1>5. CooldownsAreEarned'
  BY <1>3, <1>4 DEF CooldownsAreEarned
<1>6. FileEarned(TRUE)' = FileEarned(TRUE) /\ FileEarned(FALSE)' = FileEarned(FALSE)
  BY <1>1, <1>2 DEF FileEarned, EarnedIn, UsedIn, ScopedUse, Scoped, PayersIn, AccountsIn
<1>7. FileEarned(rule.pooled)' <=> FileEarned(~rule.pooled)
  BY <1>1, <1>2 DEF FileEarned, EarnedIn, UsedIn, ScopedUse, Scoped, PayersIn, AccountsIn
<1>8. FileNone(~rule.pooled) => FileEarned(~rule.pooled)
  BY NoneIsEarned DEF FileNone, FileEarned
<1>9. toggles' # 0 /\ (toggles' <= 1 => toggles = 0)
  BY <1>1
<1>. QED BY <1>1, <1>5, <1>6, <1>7, <1>8, <1>9 DEF EarnInv

\* Every cooldown that counts was earned, whatever resets, crashes and changes of the
\* pooling there were, short of two crashes with two toggles.
THEOREM CooldownsCorrect == Spec => []CooldownsAreEarned
<1>1. Init => EarnInv
  <2>. SUFFICES ASSUME Init PROVE EarnInv
    OBVIOUS
  <2>1. \A k \in Accounts : coolUntil[k] = 0
    BY DEF Init, NoEntries
  <2>2. \A p : AccountsIn(p) \subseteq Accounts
    BY InitType DEF AccountsIn, Accounts, TypeInv, RuleTypeOK, DurationRule
  <2>3. CooldownsAreEarned /\ NoneIn(~rule.pooled, coolUntil)
    BY <2>1, <2>2, ModeInForce DEF CooldownsAreEarned, NoneIn
  <2>. QED BY <2>3 DEF Init, EarnInv, FileEarned, FileNone
<1>2. TypeInv /\ LingerInv /\ EarnInv /\ [Next]_ledgerVars => EarnInv'
  <2>. SUFFICES ASSUME TypeInv, LingerInv, EarnInv, [Next]_ledgerVars PROVE EarnInv'
    OBVIOUS
  <2>1. CASE \/ TickWithoutSave \/ TickSaveFails
             \/ \E k \in Accounts, secs \in Grants : Extend(k, secs)
             \/ SecondPasses \/ UNCHANGED ledgerVars
    <3>1. /\ rule' = rule /\ disk' = disk /\ crashes' = crashes /\ toggles' = toggles
          /\ usageAny' = usageAny /\ usageFg' = usageFg /\ coolUntil' = coolUntil
          /\ pc' = "down" => pc = "down"
      BY <2>1 DEF TickWithoutSave, TickSaveFails, TickEndsWith, Extend, Serving, SecondPasses,
                  ledgerVars, counters
    <3>2. now' = now \/ now' = now + 1
      BY <2>1 DEF TickWithoutSave, TickSaveFails, TickEndsWith, Extend, SecondPasses, ledgerVars
    <3>3. now' \in Nat /\ now <= now'
      BY <3>2 DEF TypeInv, TypeOK
    <3>. QED BY <3>1, <3>3, QuietKeepsEarned
  <2>2. ASSUME NEW s \in Snapshots, TickBegins(s[1], s[2]) PROVE EarnInv'
    BY <2>2, TickKeepsEarned
  <2>. QED
    BY <2>1, <2>2, SaveKeepsEarned, CrashKeepsEarned, RestartKeepsEarned, ToggleKeepsEarned
       DEF Next
<1>3. TypeInv /\ [Next]_ledgerVars => TypeInv'
  BY StepType
<1>4. Init => LingerInv
  BY DEF Init, NoEntries, LingerInv, NoCooldownLingers
<1>5. TypeInv /\ LingerInv /\ [Next]_ledgerVars => LingerInv'
  BY TickKeepsLinger, ToggleForgets, OthersKeepLinger DEF Next
<1>6. EarnInv => CooldownsAreEarned
  BY DEF EarnInv
<1>. QED BY <1>1, <1>2, <1>3, <1>4, <1>5, <1>6, InitType, PTL DEF Spec

------------------------------------------------------------------------------
\* The limit.

\* How long the extension of an account still runs.
Remaining(k) ==
    IF extUntil[ExtensionOf(k)] > now THEN extUntil[ExtensionOf(k)] - now ELSE 0

\* What each payer may still be credited with before it is blocked: under an extension
\* what the next tick credits, the rest of the extension and the tick that notices its
\* end; without one, that tick.
Reserve(k) ==
    IF Remaining(k) > 0 THEN Due(k) + Remaining(k) + MaxTick
    ELSE IF Free(k) THEN MaxTick ELSE 0

\* The limit is kept even when that is used.
Kept(k) ==
    Used(usageAny, usageFg, k) + Cardinality(Payers(k)) * Reserve(k)
        < Limit + Cardinality(Payers(k)) * Allowance(k)
MemoryBounded == \A k \in TimeAccounts : Kept(k)

\* A restart starts without extension, so of the file it is enough that the limit is kept.
FileAllowance(k) ==
    MaxTick * (1 + diskExtensions[ExtensionOf(k)]) + disk.granted[ExtensionOf(k)]
FileBounded ==
    disk = NoFile \/ diskToggled
      \/ \A k \in TimeAccounts :
           Used(disk.usageAny, disk.usageFg, k)
             < Limit + Cardinality(Payers(k)) * FileAllowance(k)

LimitInv ==
    /\ ~toggled => MemoryBounded
    /\ FileBounded
    /\ pc = "down" => lastTick = Never
    /\ rule.pooled => rule.grouped

\* The arithmetic: usage that grows by d a payer, as the reserve falls or the allowance
\* grows by as much.
LEMMA StillKept ==
    ASSUME NEW used \in Nat, NEW used2 \in Nat, NEW limit \in Nat, NEW n \in Nat, NEW d \in Nat,
           NEW r \in Nat, NEW r2 \in Nat, NEW a \in Nat, NEW a2 \in Nat,
           used2 <= used + d * n, used + n * r < limit + n * a, r2 + d + a <= r + a2
    PROVE  used2 + n * r2 < limit + n * a2
<1>1. n * (r2 + d + a) <= n * (r + a2)
  <2>1. PICK e \in Nat : r + a2 = r2 + d + a + e
    <3>1. (r + a2) - (r2 + d + a) \in Nat
      OBVIOUS
    <3>. QED BY <3>1
  <2>2. n * (r2 + d + a + e) = n * (r2 + d + a) + n * e /\ n * e \in Nat
    OBVIOUS
  <2>. QED BY <2>1, <2>2
<1>2. n * (r2 + d + a) = n * r2 + d * n + n * a /\ n * (r + a2) = n * r + n * a2
  OBVIOUS
<1>3. {n * r2, d * n, n * a, n * r, n * a2} \subseteq Nat
  OBVIOUS
<1>. QED BY <1>1, <1>2, <1>3

LEMMA KeptFresh ==
    ASSUME NEW used \in Nat, NEW limit \in Nat \ {0}, NEW n \in Nat, NEW d \in Nat,
           NEW r \in Nat, NEW a \in Nat,
           used <= d * n, r + d <= a
    PROVE  used + n * r < limit + n * a
<1>1. 0 + n * 0 < limit + n * 0 /\ used <= 0 + d * n /\ r + d + 0 <= 0 + a
  OBVIOUS
<1>. QED BY <1>1, StillKept

LEMMA KeptBelow ==
    ASSUME NEW used \in Nat, NEW limit \in Nat, NEW n \in Nat, NEW r \in Nat, NEW a \in Nat,
           used < limit, r <= a
    PROVE  used + n * r < limit + n * a
<1>1. used + n * 0 < limit + n * 0 /\ used <= used + 0 * n /\ r + 0 + 0 <= 0 + a
  OBVIOUS
<1>. QED BY <1>1, StillKept

\* What is compared are natural numbers, and the allowance covers a tick's credit and
\* what was granted.
LEMMA LimitTypes ==
    ASSUME TypeInv, NEW k \in TimeAccounts
    PROVE  /\ Limit \in Nat \ {0} /\ MaxTick \in Nat \ {0} /\ Cardinality(Payers(k)) \in Nat
           /\ \A any \in [Uids -> Nat], fg \in [Uids -> Nat] : Used(any, fg, k) \in Nat
           /\ ExtensionOf(k) \in Accounts
           /\ Remaining(k) \in Nat /\ Due(k) \in Nat /\ Due(k) <= MaxTick /\ Reserve(k) \in Nat
           /\ Allowance(k) \in Nat /\ MaxTick + granted[ExtensionOf(k)] <= Allowance(k)
<1>1. Limit \in Nat \ {0} /\ MaxTick \in Nat \ {0}
  BY LedgerAssumption DEF LedgerAssumption
<1>2. Cardinality(Payers(k)) \in Nat
  BY PayersAreFinite, ModeInForce
<1>3. ExtensionOf(k) \in Accounts
  BY DEF ExtensionOf, Accounts, TimeAccounts, TimeAccount, TypeInv, RuleTypeOK, DurationRule
<1>4. /\ granted[ExtensionOf(k)] \in Nat /\ extensions[ExtensionOf(k)] \in Nat
      /\ extUntil[ExtensionOf(k)] \in Nat /\ now \in Nat
  BY <1>3 DEF TypeInv, TypeOK
<1>5. Remaining(k) \in Nat
  BY <1>4 DEF Remaining
<1>6. Due(k) \in Nat /\ Due(k) <= MaxTick
  BY DueAtMost
<1>7. Reserve(k) \in Nat
  BY <1>1, <1>5, <1>6 DEF Reserve
<1>8. Allowance(k) \in Nat /\ MaxTick + granted[ExtensionOf(k)] <= Allowance(k)
  <2>1. PICK e \in Nat, g \in Nat :
            e = extensions[ExtensionOf(k)] /\ g = granted[ExtensionOf(k)]
    BY <1>4
  <2>2. MaxTick * (1 + e) = MaxTick + MaxTick * e /\ MaxTick * e \in Nat
    BY <1>1
  <2>. QED BY <1>1, <2>1, <2>2 DEF Allowance
<1>9. \A any \in [Uids -> Nat], fg \in [Uids -> Nat] : Used(any, fg, k) \in Nat
  BY UsedIsNat, ModeInForce
<1>. QED BY <1>1, <1>2, <1>3, <1>5, <1>6, <1>7, <1>8, <1>9

\* Payers with at most c each have at most c each together.
LEMMA UsedAtMost ==
    ASSUME TypeInv, NEW any \in [Uids -> Nat], NEW fg \in [Uids -> Nat], NEW k, NEW c \in Nat,
           \A u \in Payers(k) : any[u] <= c /\ fg[u] <= c
    PROVE  Used(any, fg, k) <= c * Cardinality(Payers(k))
<1>1. PayersIn(rule.pooled, k) \subseteq Uids /\ IsFiniteSet(PayersIn(rule.pooled, k))
  BY PayersAreFinite
<1>2. ASSUME NEW u \in PayersIn(rule.pooled, k)
      PROVE  ScopedUse(any, fg)[u] \in 0 .. c
  <2>1. any[u] \in 0 .. c /\ fg[u] \in 0 .. c
    BY <1>1, <1>2, ModeInForce
  <2>. QED BY <1>1, <2>1 DEF ScopedUse, Scoped
<1>3. UsedIn(rule.pooled, any, fg, k) <= c * Cardinality(PayersIn(rule.pooled, k))
  BY <1>1, <1>2, SumAtMost DEF UsedIn
<1>. QED BY <1>3, ModeInForce

\* What a tick leaves an account that it starts again from zero.
LEMMA FreshAccount ==
    ASSUME TypeInv, NEW s \in Snapshots, NEW k \in TimeAccounts,
           NEW any, any = Settled(Credited(usageAny, s[1])),
           NEW fg, fg = Settled(Credited(usageFg, s[2]))
    PROVE  /\ k \in Ended => Used(any, fg, k) <= 0 * Cardinality(Payers(k))
           /\ NewDay => Used(any, fg, k) <= MaxTick * Cardinality(Payers(k))
<1>1. /\ usageAny \in [Uids -> Nat] /\ usageFg \in [Uids -> Nat]
      /\ any \in [Uids -> Nat] /\ fg \in [Uids -> Nat]
  BY CreditedType DEF TypeInv, TypeOK
<1>2. Elapsed \in Nat /\ Elapsed <= MaxTick /\ MaxTick \in Nat
  BY ElapsedAtMost, LedgerAssumption DEF LedgerAssumption
<1>3. ASSUME NEW u \in Payers(k)
      PROVE  u \in rule.members /\ u \in Uids /\ TimeAccount(u) = k
  BY DEF Payers, TypeInv, RuleTypeOK, DurationRule
<1>4. ASSUME k \in Ended, NEW u \in Payers(k)
      PROVE  any[u] = 0 /\ fg[u] = 0
  BY <1>3, <1>4 DEF Settled
<1>5. ASSUME NewDay, NEW u \in Payers(k)
      PROVE  any[u] <= MaxTick /\ fg[u] <= MaxTick
  <2>1. CASE k \in Ended
    BY <1>2, <1>4, <2>1
  <2>2. CASE k \notin Ended
    <3>1. u \in rule.members /\ u \in Uids /\ TimeAccount(u) \notin Ended
      BY <1>3, <1>5, <2>2
    <3>2. AfterReset(usageAny)[u] = 0 /\ AfterReset(usageFg)[u] = 0
      BY <1>1, <1>5, <3>1 DEF AfterReset
    <3>3. any[u] = 0 + Gain(u, s[1]) /\ fg[u] = 0 + Gain(u, s[2])
      BY <1>1, <3>1, <3>2, CreditOf
    <3>. QED BY <1>2, <3>3 DEF Gain
  <2>. QED BY <2>1, <2>2
<1>6. ASSUME k \in Ended PROVE Used(any, fg, k) <= 0 * Cardinality(Payers(k))
  BY <1>1, <1>4, <1>6, UsedAtMost
<1>7. ASSUME NewDay PROVE Used(any, fg, k) <= MaxTick * Cardinality(Payers(k))
  BY <1>1, <1>2, <1>5, <1>7, UsedAtMost
<1>. QED BY <1>6, <1>7

\* What an account's usage, allowance and reserve depend on.
LEMMA KeptFrame ==
    ASSUME rule' = rule, UNCHANGED <<usageAny, usageFg, extUntil, granted, extensions>>, NEW k
    PROVE  /\ Used(usageAny, usageFg, k)' = Used(usageAny, usageFg, k)
           /\ Allowance(k)' = Allowance(k)
           /\ UNCHANGED <<now, lastTick, blocked>> => Reserve(k)' = Reserve(k)
<1>1. /\ Payers(k)' = Payers(k) /\ ExtensionOf(k)' = ExtensionOf(k)
      /\ Used(usageAny, usageFg, k)' = Used(usageAny, usageFg, k)
  BY DEF Payers, TimeAccount, ExtensionOf, Used, Scoped
<1>2. Allowance(k)' = Allowance(k)
  BY <1>1 DEF Allowance
<1>3. ASSUME UNCHANGED <<now, lastTick, blocked>>
      PROVE  Reserve(k)' = Reserve(k)
  <2>1. Remaining(k)' = Remaining(k) /\ Free(k)' = Free(k) /\ Elapsed' = Elapsed
    BY <1>1, <1>3 DEF Remaining, Free, Elapsed
  <2>. QED BY <2>1 DEF Reserve, Due
<1>. QED BY <1>1, <1>2, <1>3

\* After a tick nothing is due, and an account that has used up its limit without an
\* extension has all its payers blocked.
LEMMA AfterTick ==
    ASSUME TypeInv, rule.pooled => rule.grouped, NEW s \in Snapshots, TickBegins(s[1], s[2]),
           NEW k \in TimeAccounts
    PROVE  /\ Due(k)' = 0
           /\ NewDay => Remaining(k)' = 0 /\ Allowance(k)' = MaxTick
           /\ ~NewDay => Remaining(k)' = Remaining(k) /\ Allowance(k)' = Allowance(k)
           /\ UsedUp(usageAny, usageFg, k)' /\ Remaining(k)' = 0 => ~Free(k)'
<1>1. /\ rule' = rule /\ now' = now /\ lastTick' = now /\ granted' = AfterReset(granted)
      /\ extUntil' = AfterReset(extUntil) /\ extensions' = AfterReset(extensions)
      /\ blocked' = {u \in rule.members : Blocks(u, usageAny', usageFg', coolUntil', extUntil')}
  BY DEF TickBegins
<1>2. /\ now \in Nat /\ MaxTick \in Nat \ {0} /\ ExtensionOf(k) \in Accounts
      /\ extUntil \in [Accounts -> Nat] /\ extUntil' \in [Accounts -> Nat]
  BY <1>1, LimitTypes, ResetType DEF TypeInv, TypeOK
<1>3. ExtensionOf(k)' = ExtensionOf(k) /\ Payers(k)' = Payers(k)
  BY <1>1 DEF ExtensionOf, Payers, TimeAccount
<1>4. Due(k)' = 0
  <2>1. now - now = 0 /\ 0 < MaxTick
    BY <1>2
  <2>2. Elapsed' = 0
    BY <1>1, <2>1 DEF Elapsed
  <2>. QED BY <2>2 DEF Due
<1>5. ASSUME NewDay PROVE Remaining(k)' = 0 /\ Allowance(k)' = MaxTick
  <2>1. extUntil'[ExtensionOf(k)] = 0 /\ ~(0 > now)
    BY <1>1, <1>2, <1>5 DEF AfterReset
  <2>2. extensions'[ExtensionOf(k)] = 0 /\ granted'[ExtensionOf(k)] = 0
    BY <1>1, <1>2, <1>5 DEF AfterReset, TypeInv, TypeOK
  <2>3. MaxTick * (1 + 0) + 0 = MaxTick
    BY <1>2
  <2>. QED BY <1>1, <1>3, <2>1, <2>2, <2>3 DEF Remaining, Allowance
<1>6. ASSUME ~NewDay PROVE Remaining(k)' = Remaining(k) /\ Allowance(k)' = Allowance(k)
  BY <1>1, <1>3, <1>6 DEF Remaining, Allowance, AfterReset
<1>7. ASSUME UsedUp(usageAny, usageFg, k)', Remaining(k)' = 0 PROVE ~Free(k)'
  <2>1. now >= extUntil'[ExtensionOf(k)]
    <3>1. PICK x \in Nat : x = extUntil'[ExtensionOf(k)]
      BY <1>2
    <3>2. Remaining(k)' = IF x > now THEN x - now ELSE 0
      BY <1>1, <1>3, <3>1 DEF Remaining
    <3>. QED BY <1>2, <1>7, <3>1, <3>2
  <2>2. UsedUp(usageAny', usageFg', k)
    BY <1>1, <1>7 DEF UsedUp, Used, Scoped, Payers, TimeAccount
  <2>3. ASSUME NEW u \in Payers(k) PROVE u \in blocked'
    <3>1. u \in rule.members /\ TimeAccount(u) = k /\ u \in Uids /\ Group \notin Uids
      BY LedgerAssumption DEF LedgerAssumption, Payers, TypeInv, RuleTypeOK, DurationRule
    <3>2. ExtAccount(u) = ExtensionOf(k)
      BY <3>1 DEF ExtAccount, ExtensionOf, TimeAccount
    <3>. QED BY <1>1, <2>1, <2>2, <3>1, <3>2 DEF Blocks
  <2>. QED BY <1>3, <2>3 DEF Free
<1>. QED BY <1>4, <1>5, <1>6, <1>7

\* One tick keeps every limit, and starts with one that its file allows.
LEMMA TickKeepsAccount ==
    ASSUME TypeInv, GrantInv, LimitInv, NEW s \in Snapshots, TickBegins(s[1], s[2]),
           ~toggled \/ NewDay, NEW k \in TimeAccounts
    PROVE  Kept(k)'
<1>. DEFINE n == Cardinality(Payers(k))
<1>1. /\ rule' = rule /\ toggled' = (toggled /\ ~NewDay) /\ now' = now
      /\ usageAny' = Settled(Credited(usageAny, s[1]))
      /\ usageFg' = Settled(Credited(usageFg, s[2]))
  BY DEF TickBegins
<1>2. TypeInv' /\ GrantInv'
  BY TickBeginsType, ResetKeepsGrants
<1>3. PICK any, fg, used, r, a :
          /\ any = usageAny' /\ fg = usageFg' /\ used = Used(any, fg, k)
          /\ r = Reserve(k)' /\ a = Allowance(k)'
  OBVIOUS
<1>4. any \in [Uids -> Nat] /\ fg \in [Uids -> Nat] /\ usageAny \in [Uids -> Nat] /\ usageFg \in [Uids -> Nat]
  BY <1>2, <1>3 DEF TypeInv, TypeOK
<1>5. TimeAccounts' = TimeAccounts /\ Payers(k)' = Payers(k) /\ ExtensionOf(k)' = ExtensionOf(k)
  BY <1>1 DEF TimeAccounts, TimeAccount, Payers, ExtensionOf
<1>6. SUFFICES used + n * r < Limit + n * a
  <2>1. Used(usageAny, usageFg, k)' = used
    BY <1>1, <1>3 DEF Used, Scoped, Payers, TimeAccount
  <2>. QED BY <1>3, <1>5, <2>1 DEF Kept
<1>7. /\ used \in Nat /\ n \in Nat /\ Limit \in Nat \ {0} /\ MaxTick \in Nat
      /\ Used(usageAny, usageFg, k) \in Nat /\ Reserve(k) \in Nat /\ Allowance(k) \in Nat
      /\ Due(k) \in Nat /\ Due(k) <= MaxTick /\ Remaining(k) \in Nat
  BY <1>3, <1>4, LimitTypes
<1>8. MaxTick + Remaining(k) <= Allowance(k)
  <2>1. PICK x \in Nat, g \in Nat, t \in Nat :
            /\ x = extUntil[ExtensionOf(k)] /\ g = granted[ExtensionOf(k)] /\ t = now
            /\ x <= t + g /\ MaxTick + g <= Allowance(k)
    BY LimitTypes DEF TypeInv, TypeOK, GrantInv, ExtensionsAreGranted
  <2>. QED BY <1>7, <2>1 DEF Remaining
<1>9. PICK left, free :
          /\ left \in Nat
          /\ left = (IF NewDay THEN 0 ELSE Remaining(k)) /\ free = Free(k)'
          /\ r = (IF left > 0 THEN left + MaxTick ELSE IF free THEN MaxTick ELSE 0)
          /\ a = (IF NewDay THEN MaxTick ELSE Allowance(k))
          /\ UsedUp(usageAny, usageFg, k)' /\ left = 0 => ~free
  <2>1. PICK left \in Nat : left = (IF NewDay THEN 0 ELSE Remaining(k))
    BY <1>7
  <2>2. Remaining(k)' = left /\ Due(k)' = 0 /\ 0 + left + MaxTick = left + MaxTick
    BY <1>7, <2>1, AfterTick DEF LimitInv
  <2>3. r = (IF left > 0 THEN left + MaxTick ELSE IF Free(k)' THEN MaxTick ELSE 0)
    BY <1>3, <2>2 DEF Reserve
  <2>4. a = (IF NewDay THEN MaxTick ELSE Allowance(k))
    BY <1>3, AfterTick DEF LimitInv
  <2>5. UsedUp(usageAny, usageFg, k)' /\ left = 0 => ~Free(k)'
    BY <2>2, AfterTick DEF LimitInv
  <2>. QED BY <2>1, <2>3, <2>4, <2>5
<1>. HIDE DEF n
<1>10. r \in Nat /\ a \in Nat /\ r <= a /\ MaxTick + left <= a
  BY <1>7, <1>8, <1>9
<1>11. CASE left = 0 /\ used < Limit
  BY <1>7, <1>10, <1>11, KeptBelow
<1>12. CASE k \in Ended
  <2>1. used <= 0 * n
    BY <1>1, <1>3, <1>12, FreshAccount DEF n
  <2>. QED BY <1>7, <1>10, <2>1, KeptFresh
<1>13. CASE left = 0 /\ ~(used < Limit) /\ k \notin Ended
  <2>1. ~free /\ r = 0
    <3>1. UsedUp(any, fg, k)
      BY <1>3, <1>7, <1>13 DEF UsedUp
    <3>2. UsedUp(usageAny, usageFg, k)'
      BY <1>1, <1>3, <3>1 DEF UsedUp, Used, Scoped, Payers, TimeAccount
    <3>. QED BY <1>9, <1>13, <3>2
  <2>2. CASE NewDay
    <3>1. used <= MaxTick * n
      BY <1>1, <1>3, <2>2, FreshAccount DEF n
    <3>2. r + MaxTick <= a
      BY <1>7, <1>9, <2>1, <2>2
    <3>. QED BY <1>7, <1>10, <3>1, <3>2, KeptFresh
  <2>3. CASE ~NewDay
    <3>1. used <= Used(usageAny, usageFg, k) + Due(k) * n
      BY <1>1, <1>3, <1>13, <2>3, TickAddsToAccount DEF n
    <3>2. Used(usageAny, usageFg, k) + n * Reserve(k) < Limit + n * Allowance(k)
      BY <2>3 DEF LimitInv, MemoryBounded, Kept, n
    <3>3. r + Due(k) + Allowance(k) <= Reserve(k) + a
      <4>1. Due(k) <= Reserve(k)
        BY <1>7 DEF Reserve, Due
      <4>. QED BY <1>7, <1>9, <2>1, <2>3, <4>1
    <3>. QED BY <1>7, <1>10, <3>1, <3>2, <3>3, StillKept
  <2>. QED BY <2>2, <2>3
<1>14. CASE left > 0 /\ k \notin Ended
  <2>1. ~NewDay /\ left = Remaining(k)
    BY <1>9, <1>14
  <2>2. used <= Used(usageAny, usageFg, k) + Due(k) * n
    BY <1>1, <1>3, <1>14, <2>1, TickAddsToAccount DEF n
  <2>3. Used(usageAny, usageFg, k) + n * Reserve(k) < Limit + n * Allowance(k)
    BY <2>1 DEF LimitInv, MemoryBounded, Kept, n
  <2>4. r + Due(k) + Allowance(k) <= Reserve(k) + a
    <3>1. Reserve(k) = Due(k) + left + MaxTick
      BY <1>14, <2>1 DEF Reserve
    <3>. QED BY <1>7, <1>9, <1>14, <2>1, <3>1
  <2>. QED BY <1>7, <1>10, <2>2, <2>3, <2>4, StillKept
<1>. QED BY <1>9, <1>11, <1>12, <1>13, <1>14

LEMMA FileFrame ==
    ASSUME rule' = rule, UNCHANGED <<disk, diskToggled, diskExtensions>>
    PROVE  FileBounded' = FileBounded
BY DEF FileBounded, FileAllowance, TimeAccounts, TimeAccount, Payers, ExtensionOf, Used, Scoped

LEMMA MemoryFrame ==
    ASSUME rule' = rule,
           UNCHANGED <<usageAny, usageFg, extUntil, granted, extensions, now, lastTick, blocked>>
    PROVE  MemoryBounded' = MemoryBounded
<1>1. ASSUME NEW k PROVE Kept(k)' = Kept(k)
  <2>1. Payers(k)' = Payers(k)
    BY DEF Payers, TimeAccount
  <2>. QED BY <2>1, KeptFrame DEF Kept
<1>2. TimeAccounts' = TimeAccounts
  BY DEF TimeAccounts, TimeAccount
<1>. QED BY <1>1, <1>2 DEF MemoryBounded

LEMMA TickKeepsLimit ==
    ASSUME TypeInv, GrantInv, LimitInv, NEW s \in Snapshots, TickBegins(s[1], s[2])
    PROVE  LimitInv'
<1>1. /\ rule' = rule /\ toggled' = (toggled /\ ~NewDay) /\ pc' = "decided"
      /\ UNCHANGED <<disk, diskToggled, diskExtensions>>
  BY DEF TickBegins, fileHistory
<1>2. TimeAccounts' = TimeAccounts
  BY <1>1 DEF TimeAccounts, TimeAccount
<1>3. ASSUME ~toggled' PROVE MemoryBounded'
  BY <1>1, <1>2, <1>3, TickKeepsAccount DEF MemoryBounded
<1>. QED BY <1>1, <1>3, FileFrame DEF LimitInv

LEMMA KeptMeansBelow ==
    ASSUME TypeInv, NEW k \in TimeAccounts, Kept(k)
    PROVE  Used(usageAny, usageFg, k) < Limit + Cardinality(Payers(k)) * Allowance(k)
<1>1. PICK used \in Nat, n \in Nat, r \in Nat, a \in Nat, limit \in Nat :
          /\ used = Used(usageAny, usageFg, k) /\ n = Cardinality(Payers(k))
          /\ r = Reserve(k) /\ a = Allowance(k) /\ limit = Limit
  BY LimitTypes DEF TypeInv, TypeOK
<1>2. used + n * r < limit + n * a
  BY <1>1 DEF Kept
<1>3. n * r \in Nat /\ n * a \in Nat
  OBVIOUS
<1>4. used < limit + n * a
  BY <1>2, <1>3
<1>. QED BY <1>1, <1>4

LEMMA TickEndsKeepLimit ==
    ASSUME TypeInv, LimitInv, TickWithoutSave \/ TickSaves \/ TickSaveFails
    PROVE  LimitInv'
<1>1. /\ rule' = rule /\ toggled' = toggled /\ pc' = "ready"
      /\ UNCHANGED <<usageAny, usageFg, extUntil, granted, extensions, now, lastTick, blocked>>
  BY DEF TickWithoutSave, TickSaves, TickSaveFails, TickEndsWith, counters
<1>2. MemoryBounded' = MemoryBounded
  BY <1>1, MemoryFrame
<1>3. FileBounded'
  <2>1. CASE TickSaves
    <3>1. /\ diskToggled' = toggled /\ disk'.usageAny = usageAny /\ disk'.usageFg = usageFg
          /\ disk'.granted = granted /\ diskExtensions' = extensions
      BY <2>1 DEF TickSaves, TickEndsWith, Snapshot
    <3>2. CASE toggled
      BY <3>1, <3>2 DEF FileBounded
    <3>3. CASE ~toggled
      <4>1. ASSUME NEW k \in TimeAccounts
            PROVE  Used(usageAny, usageFg, k) < Limit + Cardinality(Payers(k)) * Allowance(k)
        BY <3>3, KeptMeansBelow DEF LimitInv, MemoryBounded
      <4>2. TimeAccounts' = TimeAccounts
        BY <1>1 DEF TimeAccounts, TimeAccount
      <4>3. ASSUME NEW k
            PROVE  /\ Payers(k)' = Payers(k) /\ FileAllowance(k)' = Allowance(k)
                   /\ Used(disk.usageAny, disk.usageFg, k)' = Used(usageAny, usageFg, k)
        BY <1>1, <3>1
           DEF Payers, TimeAccount, FileAllowance, Allowance, ExtensionOf, Used, Scoped
      <4>. QED BY <4>1, <4>2, <4>3 DEF FileBounded
    <3>. QED BY <3>2, <3>3
  <2>2. CASE TickWithoutSave \/ TickSaveFails
    <3>1. UNCHANGED <<disk, diskToggled, diskExtensions>>
      BY <2>2 DEF TickWithoutSave, TickSaveFails, TickEndsWith, fileHistory
    <3>. QED BY <1>1, <3>1, FileFrame DEF LimitInv
  <2>. QED BY <2>1, <2>2
<1>. QED BY <1>1, <1>2, <1>3 DEF LimitInv

\* Where nothing was counted, granted or decided yet, every limit is kept.
LEMMA NothingCounted ==
    ASSUME TypeInv, usageAny = NoUsage, usageFg = NoUsage, extUntil = NoEntries,
           lastTick = Never
    PROVE  MemoryBounded
<1>1. SUFFICES ASSUME NEW k \in TimeAccounts PROVE Kept(k)
  BY DEF MemoryBounded
<1>. DEFINE n == Cardinality(Payers(k))
<1>2. NoUsage \in [Uids -> Nat] /\ \A u \in Payers(k) : NoUsage[u] <= 0
  BY DEF NoUsage, Payers, TypeInv, RuleTypeOK, DurationRule
<1>3. Used(NoUsage, NoUsage, k) <= 0 * n
  BY <1>2, UsedAtMost
<1>4. Reserve(k) = 0
  <2>1. extUntil[ExtensionOf(k)] = 0 /\ now \in Nat
    BY LimitTypes DEF NoEntries, TypeInv, TypeOK
  <2>. QED BY <2>1 DEF Reserve, Remaining, Free
<1>5. /\ Used(NoUsage, NoUsage, k) \in Nat /\ n \in Nat /\ Limit \in Nat \ {0}
      /\ Allowance(k) \in Nat
  BY <1>2, LimitTypes
<1>. HIDE DEF n
<1>6. Used(NoUsage, NoUsage, k) + n * 0 < Limit + n * Allowance(k)
  BY <1>3, <1>5, KeptFresh
<1>. QED BY <1>4, <1>6 DEF Kept, n

LEMMA CrashKeepsLimit ==
    ASSUME TypeInv, LimitInv, Crash
    PROVE  LimitInv'
<1>1. /\ rule' = rule /\ usageAny' = NoUsage /\ usageFg' = NoUsage /\ extUntil' = NoEntries
      /\ lastTick' = Never /\ UNCHANGED <<disk, diskToggled, diskExtensions>>
  BY DEF Crash, fileHistory
<1>2. (TypeInv /\ usageAny = NoUsage /\ usageFg = NoUsage /\ extUntil = NoEntries
         /\ lastTick = Never => MemoryBounded)'
  BY NothingCounted, PTL
<1>3. MemoryBounded'
  BY <1>1, <1>2, CrashType DEF NoUsage, NoEntries, Accounts, Never
<1>. QED BY <1>1, <1>3, FileFrame DEF LimitInv

\* A restart has no extension and nothing due.
LEMMA RestartKeepsLimit ==
    ASSUME TypeInv, GrantInv, LimitInv, Restart
    PROVE  LimitInv'
<1>1. /\ rule' = rule /\ lastTick' = Never /\ lastTick = Never /\ now' = now
      /\ extUntil' = NoEntries /\ extUntil = NoEntries /\ blocked' = blocked
      /\ UNCHANGED <<disk, diskToggled, diskExtensions>>
  BY DEF Restart, LimitInv, GrantInv, fileHistory
<1>2. FileBounded'
  BY <1>1, FileFrame DEF LimitInv
<1>3. ~toggled' => MemoryBounded'
  <2>1. CASE Restorable
    <3>1. /\ usageAny' = disk.usageAny /\ usageFg' = disk.usageFg /\ granted' = disk.granted
          /\ toggled' = diskToggled /\ extensions' = diskExtensions /\ disk # NoFile
      BY <2>1 DEF Restart, Restorable
    <3>2. TimeAccounts' = TimeAccounts
      BY <1>1 DEF TimeAccounts, TimeAccount
    <3>3. ASSUME ~diskToggled, NEW k \in TimeAccounts PROVE Kept(k)'
      <4>1. /\ Payers(k)' = Payers(k) /\ Allowance(k)' = FileAllowance(k)
            /\ Used(usageAny, usageFg, k)' = Used(disk.usageAny, disk.usageFg, k)
            /\ ExtensionOf(k)' = ExtensionOf(k)
        BY <1>1, <3>1
           DEF Payers, TimeAccount, FileAllowance, Allowance, ExtensionOf, Used, Scoped
      <4>2. Reserve(k)' = 0
        <5>1. extUntil'[ExtensionOf(k)] = 0 /\ now' \in Nat
          BY <1>1, LimitTypes DEF NoEntries, TypeInv, TypeOK
        <5>2. Remaining(k)' = 0 /\ ~Free(k)'
          BY <1>1, <4>1, <5>1 DEF Remaining, Free
        <5>. QED BY <5>2 DEF Reserve
      <4>3. Used(disk.usageAny, disk.usageFg, k)
              < Limit + Cardinality(Payers(k)) * FileAllowance(k)
        BY <3>1, <3>3 DEF LimitInv, FileBounded
      <4>4. /\ Used(disk.usageAny, disk.usageFg, k) \in Nat
            /\ Cardinality(Payers(k)) * 0 = 0
        BY <3>1, LimitTypes DEF TypeInv, DiskTypeOK
      <4>5. Used(disk.usageAny, disk.usageFg, k) + Cardinality(Payers(k)) * 0
              < Limit + Cardinality(Payers(k)) * FileAllowance(k)
        BY <4>3, <4>4
      <4>. QED BY <4>1, <4>2, <4>5 DEF Kept
    <3>. QED BY <3>1, <3>2, <3>3 DEF MemoryBounded
  <2>2. CASE ~Restorable
    <3>1. UNCHANGED <<usageAny, usageFg, granted, toggled, extensions>>
      BY <2>2 DEF Restart
    <3>2. MemoryBounded' = MemoryBounded
      BY <1>1, <3>1, MemoryFrame
    <3>. QED BY <3>1, <3>2 DEF LimitInv
  <2>. QED BY <2>1, <2>2
<1>. QED BY <1>1, <1>2, <1>3 DEF LimitInv

\* An extension adds to the allowance what it adds to the reserve: its time, and a tick
\* that notices its end.
LEMMA ExtendKeepsAccount ==
    ASSUME TypeInv, NEW a \in Accounts, NEW secs \in Grants, Extend(a, secs),
           NEW k \in TimeAccounts, Kept(k)
    PROVE  Kept(k)'
<1>. DEFINE e == ExtensionOf(k)
            cut == CutToBudget(secs, a)
<1>1. /\ rule' = rule /\ usageAny' = usageAny /\ usageFg' = usageFg /\ blocked' = blocked
      /\ lastTick' = lastTick /\ now' = now
      /\ extUntil' = [extUntil EXCEPT ![a] = (IF @ > now THEN @ ELSE now) + cut]
      /\ granted' = [granted EXCEPT ![a] = @ + cut]
      /\ extensions' = [extensions EXCEPT ![a] = @ + 1]
  BY DEF Extend, clocks
<1>2. cut \in Nat
  BY CutIsNat, LedgerAssumption DEF LedgerAssumption, Extend
<1>. HIDE DEF cut
<1>3. /\ Payers(k)' = Payers(k) /\ ExtensionOf(k)' = e /\ Elapsed' = Elapsed
      /\ Free(k)' = Free(k) /\ Due(k)' = Due(k)
      /\ Used(usageAny, usageFg, k)' = Used(usageAny, usageFg, k)
  BY <1>1 DEF Payers, TimeAccount, ExtensionOf, Elapsed, Free, Due, Used, Scoped
<1>4. PICK x \in Nat, g \in Nat, m \in Nat, t \in Nat, due \in Nat, tick \in Nat :
          /\ x = extUntil[e] /\ g = granted[e] /\ m = extensions[e] /\ t = now
          /\ due = Due(k) /\ tick = MaxTick /\ due <= tick
  BY LimitTypes DEF TypeInv, TypeOK
<1>5. PICK used \in Nat, n \in Nat, limit \in Nat :
          used = Used(usageAny, usageFg, k) /\ n = Cardinality(Payers(k)) /\ limit = Limit
  BY LimitTypes DEF TypeInv, TypeOK
<1>6. PICK free : free = Free(k)
  OBVIOUS
<1>7. due = 0 \/ free
  BY <1>4, <1>6 DEF Due
<1>. DEFINE left(y) == IF y > t THEN y - t ELSE 0
            reserve(y) == IF left(y) > 0 THEN due + left(y) + tick ELSE IF free THEN tick ELSE 0
            allowance(h, i) == tick * (1 + i) + h
<1>8. Reserve(k) = reserve(x) /\ Allowance(k) = allowance(g, m)
  BY <1>4, <1>6 DEF Reserve, Remaining, Allowance
<1>9. CASE a = e
  <2>1. PICK y \in Nat : y = (IF x > t THEN x ELSE t) + cut
    BY <1>2, <1>4
  <2>2. extUntil'[e] = y /\ granted'[e] = g + cut /\ extensions'[e] = m + 1
    <3>1. e \in Accounts
      BY LimitTypes
    <3>. QED BY <1>1, <1>2, <1>4, <1>9, <2>1, <3>1 DEF TypeInv, TypeOK
  <2>3. Remaining(k)' = left(y)
    BY <1>1, <1>3, <1>4, <2>2 DEF Remaining
  <2>4. Reserve(k)' = reserve(y)
    BY <1>3, <1>4, <1>6, <2>3 DEF Reserve
  <2>5. Allowance(k)' = allowance(g + cut, m + 1)
    BY <1>3, <1>4, <2>2 DEF Allowance
  <2>6. reserve(y) \in Nat /\ reserve(x) \in Nat /\ reserve(y) <= reserve(x) + cut + tick
    BY <1>2, <1>4, <1>7, <2>1
  <2>7. /\ allowance(g, m) \in Nat
        /\ allowance(g + cut, m + 1) = allowance(g, m) + cut + tick
    <3>1. tick * (1 + (m + 1)) = tick * (1 + m) + tick /\ tick * (1 + m) \in Nat
      OBVIOUS
    <3>. QED BY <1>2, <3>1
  <2>8. used + n * reserve(x) < limit + n * allowance(g, m)
    BY <1>5, <1>8 DEF Kept
  <2>9. used + n * reserve(y) < limit + n * allowance(g + cut, m + 1)
    <3>. HIDE DEF reserve, allowance
    <3>1. allowance(g + cut, m + 1) \in Nat
      BY <1>2, <2>7
    <3>2. used <= used + 0 * n
      OBVIOUS
    <3>3. reserve(y) + 0 + allowance(g, m) <= reserve(x) + allowance(g + cut, m + 1)
      BY <1>2, <2>6, <2>7
    <3>. QED BY <2>6, <2>7, <2>8, <3>1, <3>2, <3>3, StillKept
  <2>. HIDE DEF reserve, allowance
  <2>. QED BY <1>3, <1>5, <2>4, <2>5, <2>9 DEF Kept
<1>10. CASE a # e
  <2>1. /\ extUntil'[e] = extUntil[e] /\ granted'[e] = granted[e]
        /\ extensions'[e] = extensions[e]
    <3>1. e \in Accounts
      BY LimitTypes
    <3>. QED BY <1>1, <1>10, <3>1 DEF TypeInv, TypeOK
  <2>2. Reserve(k)' = Reserve(k) /\ Allowance(k)' = Allowance(k)
    BY <1>1, <1>3, <2>1 DEF Reserve, Remaining, Allowance
  <2>. QED BY <1>3, <2>2 DEF Kept
<1>. QED BY <1>9, <1>10

\* A second takes from the extension what it adds to what is due.
LEMMA SecondKeepsAccount ==
    ASSUME TypeInv, SecondPasses, NEW k \in TimeAccounts, Kept(k)
    PROVE  Kept(k)'
<1>1. /\ rule' = rule /\ now' = now + 1
      /\ UNCHANGED <<usageAny, usageFg, extUntil, granted, extensions, lastTick, blocked>>
  BY DEF SecondPasses, counters, clocks, history
<1>2. /\ Payers(k)' = Payers(k) /\ ExtensionOf(k)' = ExtensionOf(k)
      /\ Free(k)' = Free(k) /\ Allowance(k)' = Allowance(k)
      /\ Used(usageAny, usageFg, k)' = Used(usageAny, usageFg, k)
  BY <1>1, KeptFrame DEF Payers, TimeAccount, ExtensionOf, Free
<1>3. PICK x \in Nat, t \in Nat, tick \in Nat, due \in Nat, due2 \in Nat :
          /\ x = extUntil[ExtensionOf(k)] /\ t = now /\ tick = MaxTick
          /\ due = Due(k) /\ due2 = Due(k)' /\ due2 <= due + 1 /\ due2 <= tick
          /\ Free(k) \/ due2 = 0
  <2>1. PICK x \in Nat, t \in Nat, tick \in Nat, due \in Nat :
            x = extUntil[ExtensionOf(k)] /\ t = now /\ tick = MaxTick /\ due = Due(k)
    BY LimitTypes DEF TypeInv, TypeOK
  <2>2. CASE ~Free(k)
    BY <1>2, <2>1, <2>2 DEF Due
  <2>3. CASE Free(k)
    <3>1. PICK l \in Nat : l = lastTick /\ l <= t
      BY <2>1, <2>3 DEF Free, TypeInv, TypeOK
    <3>2. due = IF t - l < tick THEN t - l ELSE tick
      BY <2>1, <2>3, <3>1 DEF Due, Elapsed, Free
    <3>3. Due(k)' = IF (t + 1) - l < tick THEN (t + 1) - l ELSE tick
      BY <1>1, <1>2, <2>1, <2>3, <3>1 DEF Due, Elapsed, Free
    <3>4. PICK due2 \in Nat : due2 = IF (t + 1) - l < tick THEN (t + 1) - l ELSE tick
      <4>1. (IF (t + 1) - l < tick THEN (t + 1) - l ELSE tick) \in Nat
        BY <2>1, <3>1
      <4>. QED BY <4>1
    <3>5. due2 <= due + 1 /\ due2 <= tick
      BY <2>1, <3>1, <3>2, <3>4
    <3>. QED BY <2>1, <2>3, <3>3, <3>4, <3>5
  <2>. QED BY <2>2, <2>3
<1>4. PICK free : free = Free(k)
  OBVIOUS
<1>. DEFINE left(s) == IF x > s THEN x - s ELSE 0
            reserve(s, d) ==
                IF left(s) > 0 THEN d + left(s) + tick ELSE IF free THEN tick ELSE 0
<1>5. Reserve(k) = reserve(t, due) /\ Reserve(k)' = reserve(t + 1, due2)
  <2>1. Remaining(k) = left(t) /\ Remaining(k)' = left(t + 1)
    BY <1>1, <1>2, <1>3 DEF Remaining
  <2>. QED BY <1>2, <1>3, <1>4, <2>1 DEF Reserve
<1>6. /\ reserve(t, due) \in Nat /\ reserve(t + 1, due2) \in Nat
      /\ reserve(t + 1, due2) <= reserve(t, due)
  BY <1>3, <1>4
<1>. HIDE DEF reserve
<1>7. PICK used \in Nat, n \in Nat, limit \in Nat, a \in Nat :
          /\ used = Used(usageAny, usageFg, k) /\ n = Cardinality(Payers(k))
          /\ limit = Limit /\ a = Allowance(k)
  BY LimitTypes DEF TypeInv, TypeOK
<1>8. used + n * reserve(t, due) < limit + n * a
  BY <1>5, <1>7 DEF Kept
<1>9. used <= used + 0 * n /\ reserve(t + 1, due2) + 0 + a <= reserve(t, due) + a
  BY <1>6
<1>10. used + n * reserve(t + 1, due2) < limit + n * a
  BY <1>6, <1>8, <1>9, StillKept
<1>. QED BY <1>2, <1>5, <1>7, <1>10 DEF Kept

LEMMA OthersKeepLimit ==
    ASSUME TypeInv, LimitInv,
           \/ \E k \in Accounts, secs \in Grants : Extend(k, secs)
           \/ ToggleSharedPool \/ SecondPasses \/ UNCHANGED ledgerVars
    PROVE  LimitInv'
<1>1. CASE ToggleSharedPool
  <2>1. /\ toggled' /\ diskToggled' /\ pc' = "ready" /\ rule.grouped
        /\ rule' = [rule EXCEPT !.pooled = ~@] /\ rule \in DurationRule
    BY <1>1 DEF ToggleSharedPool, Serving, TypeInv, RuleTypeOK
  <2>2. rule'.grouped
    BY <2>1 DEF DurationRule
  <2>. QED BY <2>1, <2>2 DEF LimitInv, FileBounded
<1>2. CASE \E k \in Accounts, secs \in Grants : Extend(k, secs)
  <2>1. PICK a \in Accounts, secs \in Grants : Extend(a, secs)
    BY <1>2
  <2>2. /\ rule' = rule /\ toggled' = toggled /\ pc' = pc /\ lastTick' = lastTick
        /\ UNCHANGED <<disk, diskToggled, diskExtensions>>
    BY <2>1 DEF Extend, clocks, fileHistory
  <2>3. TimeAccounts' = TimeAccounts
    BY <2>2 DEF TimeAccounts, TimeAccount
  <2>4. MemoryBounded => MemoryBounded'
    BY <2>1, <2>3, ExtendKeepsAccount DEF MemoryBounded
  <2>. QED BY <2>2, <2>4, FileFrame DEF LimitInv
<1>3. CASE SecondPasses
  <2>1. /\ rule' = rule /\ toggled' = toggled /\ pc' = pc /\ lastTick' = lastTick
        /\ UNCHANGED <<disk, diskToggled, diskExtensions>>
    BY <1>3 DEF SecondPasses, clocks, history, fileHistory
  <2>2. TimeAccounts' = TimeAccounts
    BY <2>1 DEF TimeAccounts, TimeAccount
  <2>3. MemoryBounded => MemoryBounded'
    BY <1>3, <2>2, SecondKeepsAccount DEF MemoryBounded
  <2>. QED BY <2>1, <2>3, FileFrame DEF LimitInv
<1>4. CASE UNCHANGED ledgerVars
  <2>1. /\ rule' = rule /\ toggled' = toggled /\ pc' = pc /\ lastTick' = lastTick
        /\ UNCHANGED <<usageAny, usageFg, extUntil, granted, extensions, now, lastTick, blocked,
                       disk, diskToggled, diskExtensions>>
    BY <1>4 DEF ledgerVars, counters, clocks, history, fileHistory
  <2>. QED BY <2>1, FileFrame, MemoryFrame DEF LimitInv
<1>. QED BY <1>1, <1>2, <1>3, <1>4

\* An account exceeds its limit by less than its allowance: for each payer one tick's
\* credit, the time granted and a tick for each extension; over resets, failing saves,
\* crashes and restarts, unless its pooling changed since its usage was first counted.
THEOREM LimitCorrect == Spec => []LimitIsKept
<1>1. Init => LimitInv
  <2>. SUFFICES ASSUME Init PROVE LimitInv
    OBVIOUS
  <2>1. MemoryBounded
    BY InitType, NothingCounted DEF Init
  <2>2. rule.pooled => rule.grouped
    BY LedgerAssumption DEF LedgerAssumption, Init
  <2>. QED BY <2>1, <2>2 DEF Init, LimitInv, FileBounded
<1>2. TypeInv /\ GrantInv /\ LimitInv /\ [Next]_ledgerVars => LimitInv'
  BY TickKeepsLimit, TickEndsKeepLimit, CrashKeepsLimit, RestartKeepsLimit, OthersKeepLimit
     DEF Next
<1>3. Init => GrantInv
  BY LedgerAssumption
     DEF LedgerAssumption, Init, NoEntries, NoFile, GrantInv, ExtensionsAreGranted
<1>4. TypeInv /\ GrantInv /\ [Next]_ledgerVars => GrantInv'
  BY ResetKeepsGrants, ExtendKeepsGrants, RestartKeepsGrants, OthersKeepGrants DEF Next
<1>5. TypeInv /\ [Next]_ledgerVars => TypeInv'
  BY StepType
<1>6. TypeInv /\ LimitInv => LimitIsKept
  BY KeptMeansBelow DEF LimitInv, MemoryBounded, LimitIsKept
<1>. QED BY <1>1, <1>2, <1>3, <1>4, <1>5, <1>6, InitType, PTL DEF Spec
================================================================================
