---------------------------- MODULE EngineProofs ----------------------------
(***************************************************************************)
(* The resumable search of the engine, for every number of passwords,      *)
(* wallet, chunk size, pool, save period and number of sittings: one lemma *)
(* per action shows that it keeps the invariant IInv, from which follow    *)
(* that a save slot always survives and that the engine implements Sweep;  *)
(* PaceOK and DebtOK add what the save period is worth.                    *)
(***************************************************************************)
EXTENDS Engine, FiniteSetTheorems, TLAPS

\* The special results are not passwords.
LEMMA NoAnswer ==
    ASSUME TypeOK
    PROVE  None \notin targets /\ Exhausted \notin targets /\ None # Exhausted
<1>1. targets \subseteq Nat
  BY ConstantsAssumption DEF TypeOK
<1> QED BY <1>1, ConstantsAssumption

\* A new sitting on an empty file starts at the --skip option.
LEMMA StartNewKeeps ==
    ASSUME IInv, StartNew
    PROVE  IInv'
<1> USE ConstantsAssumption DEF IInv
<1>1. TypeOK'
    BY DEF StartNew, Begin, TypeOK, Readable, UseSlot, Slots, Erased,
         ProgressOK, Chunks, disk, plan, pool
<1>2. SlotsOK'
    BY DEF StartNew, Begin, TypeOK, SlotsOK, ProgressOK, Saved, Readable,
         UseSlot, Slots, Erased, disk
<1>3. ProgressOK'
    BY DEF StartNew, Begin, TypeOK, ProgressOK, SlotsOK, PoolOK, Searching,
         Front, Clean, Saved, Readable, UseSlot, Slots, Erased, Chunks, disk
<1>4. PoolOK'
    BY DEF StartNew, Begin, TypeOK, PoolOK, Searching, Front, plan, pool
<1>5. RightAnswer(verdict)' /\ RightAnswer(result)'
  BY NoAnswer DEF StartNew, Begin, TypeOK, RightAnswer, Clean
<1> QED BY <1>1, <1>2, <1>3, <1>4, <1>5

\* A restored sitting starts at the newer slot and will erase the other.
LEMMA StartRestoredKeeps ==
    ASSUME IInv, StartRestored
    PROVE  IInv'
<1> USE ConstantsAssumption DEF IInv
<1>1. TypeOK'
    BY DEF StartRestored, Begin, TypeOK, Readable, UseSlot, Slots, Erased,
         ProgressOK, Chunks, disk, plan, pool
<1>2. SlotsOK'
    BY DEF StartRestored, Begin, TypeOK, SlotsOK, ProgressOK, Saved, Readable,
         UseSlot, Slots, Erased, disk
<1>3. ProgressOK'
    BY DEF StartRestored, Begin, TypeOK, ProgressOK, Clean, Saved, Readable,
         UseSlot, disk
<1>4. PoolOK'
    BY DEF StartRestored, Begin, TypeOK, PoolOK, Searching, Front, plan, pool
<1>5. RightAnswer(verdict)' /\ RightAnswer(result)'
  BY NoAnswer DEF StartRestored, Begin, TypeOK, RightAnswer, Clean
<1> QED BY <1>1, <1>2, <1>3, <1>4, <1>5

\* A start that raises changes nothing but the result.
LEMMA StartRaisesKeeps ==
    ASSUME IInv, StartRaises
    PROVE  IInv'
<1> USE ConstantsAssumption DEF IInv
<1>1. TypeOK'
    BY DEF StartRaises, Begin, TypeOK, disk, plan, pool
<1>2. SlotsOK'
    BY DEF StartRaises, Begin, TypeOK, SlotsOK, Readable, disk
<1>3. ProgressOK'
    BY DEF StartRaises, Begin, TypeOK, ProgressOK, Clean, Saved, Readable,
         UseSlot, disk
<1>4. PoolOK'
    BY DEF StartRaises, Begin, TypeOK, PoolOK, Searching, Front, plan, pool
<1>5. RightAnswer(verdict)' /\ RightAnswer(result)'
  BY NoAnswer DEF StartRaises, Begin, TypeOK, RightAnswer, Clean
<1> QED BY <1>1, <1>2, <1>3, <1>4, <1>5

\* All passwords skipped: no password above args.skip exists.
LEMMA SkippedAllKeeps ==
    ASSUME IInv, SkippedAll
    PROVE  IInv'
<1> USE ConstantsAssumption DEF IInv
<1>1. TypeOK'
    BY DEF SkippedAll, TypeOK, disk, plan, pool
<1>2. SlotsOK'
    BY DEF SkippedAll, TypeOK, SlotsOK, Readable, disk
<1>3. ProgressOK'
    BY DEF SkippedAll, TypeOK, ProgressOK, Clean, Saved, Readable, UseSlot,
         disk
<1>4. PoolOK'
    BY DEF SkippedAll, TypeOK, PoolOK, Searching, Front, plan, pool
<1>5. RightAnswer(verdict)' /\ RightAnswer(result)'
  <2>1. skip = Saved /\ Clean(Skip, Saved) /\ N <= skip
    BY DEF SkippedAll, ProgressOK
  <2>2. Saved \in Int /\ Skip \in Int
    BY <2>1 DEF TypeOK
  <2>3. Clean(Skip, N)
    BY <2>1, <2>2 DEF Clean, TypeOK
  <2> QED BY <2>3, NoAnswer DEF SkippedAll, RightAnswer, Clean
<1> QED BY <1>1, <1>2, <1>3, <1>4, <1>5

\* The starting save repeats the progress already made.
LEMMA PrepareKeeps ==
    ASSUME IInv, Prepare
    PROVE  IInv'
<1> USE ConstantsAssumption DEF IInv
<1>1. TypeOK'
    BY DEF Prepare, Autosave, Shares, Whole, Least, TypeOK, disk, plan, pool
<1>2. SlotsOK'
    BY DEF Prepare, Autosave, Shares, Whole, Least, TypeOK, SlotsOK, Readable,
         disk
<1>3. ProgressOK'
    BY DEF Prepare, Autosave, Shares, Whole, Least, TypeOK, ProgressOK, Clean,
         Saved, Readable, UseSlot, disk
<1>4. PoolOK'
    BY DEF Prepare, Autosave, Shares, Whole, Least, TypeOK, PoolOK, Searching,
         Front, plan, pool
<1>5. RightAnswer(verdict)' /\ RightAnswer(result)'
    BY DEF Prepare, Autosave, Shares, Whole, Least, TypeOK, RightAnswer, Clean
<1> QED BY <1>1, <1>2, <1>3, <1>4, <1>5

\* The fresh pool has nothing outstanding.
LEMMA SpawnKeeps ==
    ASSUME IInv, Spawn
    PROVE  IInv'
<1> USE ConstantsAssumption DEF IInv
<1>1. TypeOK'
    BY DEF Spawn, TypeOK, disk, plan, pool
<1>2. SlotsOK'
    BY DEF Spawn, TypeOK, SlotsOK, Readable, disk
<1>3. ProgressOK'
    BY DEF Spawn, TypeOK, ProgressOK, Clean, Saved, Readable, UseSlot, disk
<1>4. PoolOK'
    BY DEF Spawn, TypeOK, PoolOK, Searching, Front, ProgressOK, Chunks, plan,
         pool
<1>5. RightAnswer(verdict)' /\ RightAnswer(result)'
    BY DEF Spawn, TypeOK, RightAnswer, Clean
<1> QED BY <1>1, <1>2, <1>3, <1>4, <1>5

\* The slot erased is the older one, so saved progress stands.
LEMMA EraseSlotKeeps ==
    ASSUME IInv, EraseSlot
    PROVE  IInv'
<1> USE ConstantsAssumption DEF IInv
<1>1. TypeOK'
    BY DEF EraseSlot, TypeOK, disk, plan, pool
<1>2. SlotsOK'
    BY DEF EraseSlot, TypeOK, SlotsOK, ProgressOK, Saved, Readable, UseSlot,
         Slots, Erased, disk
<1>3. ProgressOK'
    BY DEF EraseSlot, TypeOK, ProgressOK, SlotsOK, PoolOK, Searching, Front,
         Clean, Saved, Readable, UseSlot, Slots, Erased, Chunks, disk
<1>4. PoolOK'
    BY DEF EraseSlot, TypeOK, PoolOK, Searching, Front, plan, pool
<1>5. RightAnswer(verdict)' /\ RightAnswer(result)'
    BY DEF EraseSlot, TypeOK, RightAnswer, Clean
<1> QED BY <1>1, <1>2, <1>3, <1>4, <1>5

\* The slot written becomes the newer one.
LEMMA WriteSlotKeeps ==
    ASSUME IInv, WriteSlot
    PROVE  IInv'
<1> USE ConstantsAssumption DEF IInv
<1>1. TypeOK'
    BY DEF WriteSlot, TypeOK, Readable, UseSlot, Slots, Erased, ProgressOK,
         Chunks, disk, plan, pool
<1>2. SlotsOK'
  <2>1. /\ nextslot \in {0, 1} /\ nextslot' = 1 - nextslot
        /\ slot' = [slot EXCEPT ![nextslot] = saving]
        /\ slot[1 - nextslot] <= saving
    BY DEF WriteSlot, TypeOK, SlotsOK, ProgressOK, Saved, Readable, UseSlot,
           Slots, Erased
  <2>2. slot'[nextslot] = saving /\ slot'[1 - nextslot] = slot[1 - nextslot]
    BY <2>1 DEF TypeOK, Slots
  <2>3. slot'[1 - nextslot'] >= slot'[nextslot']
    BY <2>1, <2>2 DEF TypeOK
  <2>4. Readable' # {}
    BY <2>1, <2>2 DEF Readable, Slots, Erased, TypeOK
  <2>5. empty' = empty /\ ~empty
    BY DEF WriteSlot, SlotsOK
  <2> QED BY <2>3, <2>4, <2>5 DEF SlotsOK
<1>3. ProgressOK'
    BY DEF WriteSlot, TypeOK, ProgressOK, SlotsOK, PoolOK, Searching, Front,
         Clean, Saved, Readable, UseSlot, Slots, Erased, Chunks, disk
<1>4. PoolOK'
    BY DEF WriteSlot, TypeOK, PoolOK, Searching, Front, plan, pool
<1>5. RightAnswer(verdict)' /\ RightAnswer(result)'
    BY DEF WriteSlot, TypeOK, RightAnswer, Clean
<1> QED BY <1>1, <1>2, <1>3, <1>4, <1>5

\* Without a pool, the chunk tested is the next one.
LEMMA VerifyInlineKeeps ==
    ASSUME IInv, VerifyInline
    PROVE  IInv'
<1> USE ConstantsAssumption DEF IInv
<1>1. TypeOK'
    BY DEF VerifyInline, Verify, NextChunk, Hits, Least, TypeOK, disk, plan,
         pool
<1>2. SlotsOK'
    BY DEF VerifyInline, Verify, NextChunk, Hits, Least, TypeOK, SlotsOK,
         Readable, disk
<1>3. ProgressOK'
    BY DEF VerifyInline, Verify, NextChunk, Hits, Least, TypeOK, ProgressOK,
         SlotsOK, PoolOK, Searching, Front, Clean, Saved, Readable, UseSlot,
         Slots, Erased, Chunks, disk
<1>4. PoolOK'
    BY DEF VerifyInline, Verify, NextChunk, Hits, Least, TypeOK, PoolOK,
         Searching, Front, plan, pool
<1>5. RightAnswer(verdict)' /\ RightAnswer(result)'
    BY DEF VerifyInline, Verify, NextChunk, Hits, Least, TypeOK, RightAnswer,
         Clean
<1> QED BY <1>1, <1>2, <1>3, <1>4, <1>5

\* imap's order makes the received chunk adjoin what was tried.
LEMMA ReceiveKeeps ==
    ASSUME IInv, Receive
    PROVE  IInv'
<1> USE ConstantsAssumption DEF IInv
<1>1. TypeOK'
    BY DEF Receive, Verify, Hits, TypeOK, SlotsOK, ProgressOK, PoolOK,
         Searching, Front, RightAnswer, Clean, Saved, Readable, UseSlot,
         Slots, Erased, Chunks, disk, plan, pool
<1>2. SlotsOK'
    BY DEF Receive, Verify, Hits, TypeOK, SlotsOK, Readable, disk
<1>3. ProgressOK'
    BY DEF Receive, Verify, Hits, TypeOK, ProgressOK, SlotsOK, PoolOK,
         Searching, Front, Clean, Saved, Readable, UseSlot, Slots, Erased,
         Chunks, disk
<1>4. PoolOK'
    BY DEF Receive, Verify, Hits, TypeOK, PoolOK, Searching, Front,
         ProgressOK, Chunks, plan, pool
<1>5. RightAnswer(verdict)' /\ RightAnswer(result)'
    BY DEF Receive, Verify, Hits, TypeOK, RightAnswer, Clean
<1> QED BY <1>1, <1>2, <1>3, <1>4, <1>5

\* passwords_tried passes wrong passwords only.
LEMMA CountKeeps ==
    ASSUME IInv, Count
    PROVE  IInv'
<1> USE ConstantsAssumption DEF IInv
<1>1. TypeOK'
    BY DEF Count, TypeOK, Readable, UseSlot, Slots, Erased, ProgressOK,
         Chunks, disk, plan, pool
<1>2. SlotsOK'
    BY DEF Count, TypeOK, SlotsOK, Readable, disk
<1>3. ProgressOK'
    BY DEF Count, TypeOK, ProgressOK, SlotsOK, PoolOK, Searching, Front,
         Clean, Saved, Readable, UseSlot, Slots, Erased, Chunks, disk
<1>4. PoolOK'
    BY DEF Count, TypeOK, PoolOK, Searching, Front, plan, pool
<1>5. RightAnswer(verdict)' /\ RightAnswer(result)'
    BY DEF Count, TypeOK, RightAnswer, Clean
<1> QED BY <1>1, <1>2, <1>3, <1>4, <1>5

\* The password found is the first above what was tried.
LEMMA FoundKeeps ==
    ASSUME IInv, Found
    PROVE  IInv'
<1> USE ConstantsAssumption DEF IInv
<1>1. TypeOK'
    BY DEF Found, Autosave, TypeOK, disk, plan, pool
<1>2. SlotsOK'
    BY DEF Found, Autosave, TypeOK, SlotsOK, Readable, disk
<1>3. ProgressOK'
    BY DEF Found, Autosave, TypeOK, ProgressOK, Clean, Saved, Readable,
         UseSlot, disk
<1>4. PoolOK'
    BY DEF Found, Autosave, TypeOK, PoolOK, Searching, Front, plan, pool
<1>5. RightAnswer(verdict)' /\ RightAnswer(result)'
    BY DEF Found, Autosave, TypeOK, SlotsOK, ProgressOK, PoolOK, Searching,
         Front, RightAnswer, Clean, Saved, Readable, UseSlot, Slots, Erased,
         Chunks, disk, plan, pool
<1> QED BY <1>1, <1>2, <1>3, <1>4, <1>5

\* A periodic save saves what was tried.
LEMMA PeriodicSaveKeeps ==
    ASSUME IInv, PeriodicSave
    PROVE  IInv'
<1> USE ConstantsAssumption DEF IInv
<1>1. TypeOK'
    BY DEF PeriodicSave, Autosave, TypeOK, disk, plan, pool
<1>2. SlotsOK'
    BY DEF PeriodicSave, Autosave, TypeOK, SlotsOK, Readable, disk
<1>3. ProgressOK'
    BY DEF PeriodicSave, Autosave, TypeOK, ProgressOK, Clean, Saved, Readable,
         UseSlot, disk
<1>4. PoolOK'
    BY DEF PeriodicSave, Autosave, TypeOK, PoolOK, Searching, Front, plan,
         pool
<1>5. RightAnswer(verdict)' /\ RightAnswer(result)'
    BY DEF PeriodicSave, Autosave, TypeOK, RightAnswer, Clean
<1> QED BY <1>1, <1>2, <1>3, <1>4, <1>5

\* Going on with the loop changes nothing.
LEMMA ContinueKeeps ==
    ASSUME IInv, Continue
    PROVE  IInv'
<1> USE ConstantsAssumption DEF IInv
<1>1. TypeOK'
    BY DEF Continue, TypeOK, disk, plan, pool
<1>2. SlotsOK'
    BY DEF Continue, TypeOK, SlotsOK, Readable, disk
<1>3. ProgressOK'
    BY DEF Continue, TypeOK, ProgressOK, Clean, Saved, Readable, UseSlot, disk
<1>4. PoolOK'
    BY DEF Continue, TypeOK, PoolOK, Searching, Front, plan, pool
<1>5. RightAnswer(verdict)' /\ RightAnswer(result)'
    BY DEF Continue, TypeOK, RightAnswer, Clean
<1> QED BY <1>1, <1>2, <1>3, <1>4, <1>5

\* Nothing outstanding and everything handed out: all were tried.
LEMMA EndOfPasswordsKeeps ==
    ASSUME IInv, EndOfPasswords
    PROVE  IInv'
<1> USE ConstantsAssumption DEF IInv
<1>1. TypeOK'
    BY DEF EndOfPasswords, Autosave, TypeOK, disk, plan, pool
<1>2. SlotsOK'
    BY DEF EndOfPasswords, Autosave, TypeOK, SlotsOK, Readable, disk
<1>3. ProgressOK'
    BY DEF EndOfPasswords, Autosave, TypeOK, ProgressOK, Clean, Saved,
         Readable, UseSlot, disk
<1>4. PoolOK'
    BY DEF EndOfPasswords, Autosave, TypeOK, PoolOK, Searching, Front, plan,
         pool
<1>5. RightAnswer(verdict)' /\ RightAnswer(result)'
  <2>1. Clean(Skip, skip + tried) /\ N <= skip + tried
    BY DEF EndOfPasswords, ProgressOK, PoolOK, Searching, Front, TypeOK
  <2>2. Clean(Skip, N)
    BY <2>1 DEF Clean, TypeOK
  <2> QED BY <2>2, NoAnswer DEF EndOfPasswords, RightAnswer, Clean
<1> QED BY <1>1, <1>2, <1>3, <1>4, <1>5

\* The answer given is the verdict.
LEMMA ReturnKeeps ==
    ASSUME IInv, Return
    PROVE  IInv'
<1> USE ConstantsAssumption DEF IInv
<1>1. TypeOK'
    BY DEF Return, TypeOK, disk, plan, pool
<1>2. SlotsOK'
    BY DEF Return, TypeOK, SlotsOK, Readable, disk
<1>3. ProgressOK'
    BY DEF Return, TypeOK, ProgressOK, Clean, Saved, Readable, UseSlot, disk
<1>4. PoolOK'
    BY DEF Return, TypeOK, PoolOK, Searching, Front, plan, pool
<1>5. RightAnswer(verdict)' /\ RightAnswer(result)'
    BY DEF Return, TypeOK, RightAnswer, Clean
<1> QED BY <1>1, <1>2, <1>3, <1>4, <1>5

\* The chunk handed out adjoins those before it.
LEMMA TakeChunkKeeps ==
    ASSUME IInv, TakeChunk
    PROVE  IInv'
<1> USE ConstantsAssumption DEF IInv
<1>1. TypeOK'
    BY DEF TakeChunk, NextChunk, Polling, Least, TypeOK, Readable, UseSlot,
         Slots, Erased, ProgressOK, Chunks, disk, plan, pool
<1>2. SlotsOK'
    BY DEF TakeChunk, NextChunk, Polling, Least, TypeOK, SlotsOK, Readable,
         disk
<1>3. ProgressOK'
    BY DEF TakeChunk, NextChunk, Polling, Least, TypeOK, ProgressOK, Clean,
         Saved, Readable, UseSlot, disk
<1>4. PoolOK'
  <2> DEFINE new == NextChunk
  <2>1. /\ new.from = fed /\ new.from < new.to /\ new.to \in Nat
        /\ \A i \in fed + 1 .. new.to : new.from < i /\ i <= new.to
    BY DEF TakeChunk, NextChunk, Least, TypeOK
  <2>2. SUFFICES ASSUME Searching'
                 PROVE  /\ Front' <= fed'
                        /\ \A c \in (busy \cup done)' : c.from < c.to /\ c.to <= fed'
                        /\ \A i \in Front' + 1 .. fed' :
                              \E c \in (busy \cup done)' : c.from < i /\ i <= c.to
                        /\ threads' = 0 => busy' = {} /\ done' = {}
    BY DEF PoolOK
  <2>3. Searching /\ Front' = Front /\ Front \in Nat
    BY <2>2 DEF TakeChunk, Searching, Front, TypeOK
  <2>4. fed' = new.to /\ busy' = busy \cup {new} /\ done' = done
    BY DEF TakeChunk
  <2>5. threads # 0
    <3>1. SUFFICES ASSUME threads = 0 PROVE FALSE
      OBVIOUS
    <3>2. busy = {} /\ Cardinality(busy) < 0
      BY <2>3, <3>1 DEF TakeChunk, PoolOK
    <3> QED BY <3>2, FS_EmptySet
  <2> HIDE DEF new
  <2>6. \A i \in Front + 1 .. new.to :
            i \in Front + 1 .. fed \/ (new.from < i /\ i <= new.to)
    BY <2>1, <2>3 DEF TypeOK
  <2>7. threads' # 0
    BY <2>5 DEF TakeChunk, plan
  <2> QED BY <2>1, <2>3, <2>4, <2>6, <2>7 DEF PoolOK, TypeOK, Chunks
<1>5. RightAnswer(verdict)' /\ RightAnswer(result)'
    BY DEF TakeChunk, NextChunk, Polling, Least, TypeOK, RightAnswer, Clean
<1> QED BY <1>1, <1>2, <1>3, <1>4, <1>5

\* A finished chunk is still outstanding.
LEMMA FinishChunkKeeps ==
    ASSUME IInv, FinishChunk
    PROVE  IInv'
<1> USE ConstantsAssumption DEF IInv
<1>1. TypeOK'
    BY DEF FinishChunk, Polling, TypeOK, disk, plan, pool
<1>2. SlotsOK'
    BY DEF FinishChunk, Polling, TypeOK, SlotsOK, Readable, disk
<1>3. ProgressOK'
    BY DEF FinishChunk, Polling, TypeOK, ProgressOK, Clean, Saved, Readable,
         UseSlot, disk
<1>4. PoolOK'
    BY DEF FinishChunk, Polling, TypeOK, PoolOK, Searching, Front, plan, pool
<1>5. RightAnswer(verdict)' /\ RightAnswer(result)'
    BY DEF FinishChunk, Polling, TypeOK, RightAnswer, Clean
<1> QED BY <1>1, <1>2, <1>3, <1>4, <1>5

\* The final save of an interrupted sitting saves what was tried.
LEMMA InterruptKeeps ==
    ASSUME IInv, Interrupt
    PROVE  IInv'
<1> USE ConstantsAssumption DEF IInv
<1>1. TypeOK'
    BY DEF Interrupt, Autosave, TypeOK, disk, plan, pool
<1>2. SlotsOK'
    BY DEF Interrupt, Autosave, TypeOK, SlotsOK, Readable, disk
<1>3. ProgressOK'
    BY DEF Interrupt, Autosave, TypeOK, ProgressOK, Clean, Saved, Readable,
         UseSlot, disk
<1>4. PoolOK'
    BY DEF Interrupt, Autosave, TypeOK, PoolOK, Searching, Front, plan, pool
<1>5. RightAnswer(verdict)' /\ RightAnswer(result)'
  BY NoAnswer DEF Interrupt, TypeOK, RightAnswer, Clean
<1> QED BY <1>1, <1>2, <1>3, <1>4, <1>5

\* Losing the process loses nothing on disk.
LEMMA DieKeeps ==
    ASSUME IInv, Die
    PROVE  IInv'
<1> USE ConstantsAssumption DEF IInv
<1>1. TypeOK'
    BY DEF Die, TypeOK, disk, plan, pool
<1>2. SlotsOK'
    BY DEF Die, TypeOK, SlotsOK, Readable, disk
<1>3. ProgressOK'
    BY DEF Die, TypeOK, ProgressOK, Clean, Saved, Readable, UseSlot, disk
<1>4. PoolOK'
    BY DEF Die, TypeOK, PoolOK, Searching, Front, plan, pool
<1>5. RightAnswer(verdict)' /\ RightAnswer(result)'
    BY DEF Die, TypeOK, RightAnswer, Clean
<1> QED BY <1>1, <1>2, <1>3, <1>4, <1>5

-----------------------------------------------------------------------------

\* The invariant holds before the first start.
LEMMA InitIInv == Init => IInv
<1> SUFFICES ASSUME Init PROVE IInv
  OBVIOUS
<1> USE ConstantsAssumption DEF Init
<1>1. TypeOK
  BY DEF TypeOK, Slots, Erased, Chunks
<1>2. SlotsOK /\ ProgressOK /\ PoolOK
  BY DEF SlotsOK, ProgressOK, PoolOK, Searching, Saved, Readable, Slots,
         Erased, Clean
<1>3. RightAnswer(verdict) /\ RightAnswer(result)
  BY <1>1, NoAnswer DEF RightAnswer
<1> QED BY <1>1, <1>2, <1>3 DEF IInv

\* Every step keeps the invariant.
LEMMA NextIInv == IInv /\ [Next]_vars => IInv'
<1> SUFFICES ASSUME IInv, [Next]_vars PROVE IInv'
  OBVIOUS
<1>1. CASE UNCHANGED vars
  BY <1>1 DEF vars, disk, plan, pool, IInv, TypeOK, SlotsOK, ProgressOK,
         PoolOK, Searching, Front, RightAnswer, Clean, Saved, Readable,
         UseSlot
<1>2. CASE Main
  BY <1>2, StartNewKeeps, StartRestoredKeeps, StartRaisesKeeps,
         SkippedAllKeeps, PrepareKeeps, SpawnKeeps, EraseSlotKeeps,
         WriteSlotKeeps, VerifyInlineKeeps, ReceiveKeeps, CountKeeps,
         FoundKeeps, PeriodicSaveKeeps, ContinueKeeps, EndOfPasswordsKeeps,
         ReturnKeeps DEF Main
<1>3. CASE TakeChunk \/ FinishChunk \/ Interrupt \/ Die
  BY <1>3, TakeChunkKeeps, FinishChunkKeeps, InterruptKeeps, DieKeeps
<1> QED BY <1>1, <1>2, <1>3 DEF Next

\* For every number of passwords, chunk size, pool, save period and number
\* of sittings, and for every wallet: the inductive invariant of the engine.
THEOREM EngineInvariant == Spec => []IInv
<1> QED BY InitIInv, NextIInv, PTL DEF Spec

\* do_autosave never erases the only good slot: the slot that survives holds
\* what the next sitting resumes from.
THEOREM EngineKeepsASlot == Spec => []OneSlotSurvives
<1>1. IInv => OneSlotSurvives
  <2> SUFFICES ASSUME IInv PROVE OneSlotSurvives
    OBVIOUS
  <2> USE ConstantsAssumption DEF IInv
  <2>1. nextslot \in {0, 1} /\ slot \in [{0, 1} -> Nat \cup {-1}]
    BY DEF TypeOK, Slots, Erased
  <2>2. ASSUME Readable = {}, pc # "off"
        PROVE  nextslot = 0 /\ skip = Skip /\ tried = 0
    BY <2>2 DEF SlotsOK, ProgressOK, Saved, TypeOK
  <2>3. ASSUME Readable # {}, pc # "off"
        PROVE  \E s \in Readable : s # nextslot /\ slot[s] = Saved
    <3>1. slot[1 - nextslot] >= slot[nextslot]
      BY <2>3 DEF SlotsOK
    <3>2. 1 - nextslot \in Readable /\ slot[1 - nextslot] = Saved
      BY <2>1, <2>3, <3>1 DEF Readable, Slots, Erased, Saved, UseSlot
    <3> QED BY <2>1, <3>2
  <2> QED BY <2>2, <2>3 DEF OneSlotSurvives
<1> QED BY <1>1, EngineInvariant, PTL

-----------------------------------------------------------------------------

\* The initial states are those of Sweep.
LEMMA SweepInit == Init => Abstract!Init
BY ConstantsAssumption DEF Init, Abstract!Init, Saved, Readable, Slots, Erased

\* Starting the engine forgets the last result; writing a slot is progress;
\* main() returning is the answer; every other step changes nothing a user
\* or a later sitting can see.
LEMMA SweepStep ==
    ASSUME IInv, [Next]_vars
    PROVE  [Abstract!Next]_(Abstract!vars)
<1> USE ConstantsAssumption DEF IInv
<1> DEFINE Same == targets' = targets /\ Saved' = Saved /\ result' = result
<1>1. ASSUME Same PROVE [Abstract!Next]_(Abstract!vars)
  BY <1>1 DEF Abstract!vars
<1>2. ASSUME UNCHANGED <<targets, disk, result>> PROVE Same
  BY <1>2 DEF disk, Saved, Readable, UseSlot
<1>3. ASSUME Begin PROVE Abstract!Forget
  BY <1>3 DEF Begin, Abstract!Forget, disk, Saved, Readable, UseSlot
<1>4. CASE EraseSlot
  <2>1. nextslot \in {0, 1} /\ slot \in [{0, 1} -> Nat \cup {-1}]
    BY DEF TypeOK, Slots, Erased
  <2>2. slot[1 - nextslot] >= slot[nextslot] /\ slot' = [slot EXCEPT ![nextslot] = -1]
    BY <1>4 DEF EraseSlot, SlotsOK, Erased
  <2>3. Saved' = Saved
    BY <2>1, <2>2 DEF Saved, Readable, UseSlot, Slots, Erased
  <2> QED BY <2>3, <1>1, <1>4 DEF EraseSlot
<1>5. CASE WriteSlot
  <2>1. nextslot \in {0, 1} /\ slot \in [{0, 1} -> Nat \cup {-1}] /\ saving \in Nat
    BY DEF TypeOK, Slots, Erased
  <2>2. slot[1 - nextslot] >= slot[nextslot] /\ slot' = [slot EXCEPT ![nextslot] = saving]
    BY <1>5 DEF WriteSlot, SlotsOK
  <2>3. Saved <= saving /\ Clean(Skip, saving) /\ Skip <= Saved
    BY <1>5 DEF WriteSlot, ProgressOK
  <2>4. Saved' = saving /\ Saved \in Nat
    BY <2>1, <2>2, <2>3 DEF Saved, Readable, UseSlot, Slots, Erased
  <2>5. Abstract!Advance
    BY <1>5, <2>1, <2>3, <2>4 DEF Abstract!Advance, Abstract!Remaining, Clean,
           WriteSlot, TypeOK
  <2> QED BY <2>5 DEF Abstract!Next
<1>6. CASE Return
  <2>1. targets' = targets /\ Saved' = Saved /\ result' = verdict
    BY <1>6 DEF Return, disk, Saved, Readable, UseSlot
  <2>2. Skip <= Saved /\ Clean(Skip, Saved) /\ Saved \in Nat
    BY DEF ProgressOK, Saved, Readable, UseSlot, TypeOK, Slots, Erased
  <2>3. CASE verdict = None
    BY <2>1, <2>3 DEF Abstract!Next, Abstract!Forget
  <2>4. CASE verdict = Exhausted
    <3>1. Clean(Skip, N)
      BY <2>4 DEF RightAnswer
    <3>2. Abstract!Remaining(Saved) = {}
      <4>1. SUFFICES ASSUME NEW t \in targets, t > Saved PROVE FALSE
        BY DEF Abstract!Remaining
      <4>2. t \in 1 .. N
        BY DEF TypeOK
      <4> QED BY <2>2, <3>1, <4>1, <4>2 DEF Clean
    <3> QED BY <2>1, <2>4, <3>2 DEF Abstract!Next, Abstract!GiveUp
  <2>5. CASE verdict \in targets
    <3>1. verdict \in Nat /\ verdict > Skip /\ Clean(Skip, verdict - 1)
      BY <2>5 DEF RightAnswer, TypeOK
    <3>2. /\ verdict \in Abstract!Remaining(Saved)
          /\ \A t \in Abstract!Remaining(Saved) : verdict <= t
      BY <2>2, <2>5, <3>1 DEF Abstract!Remaining, Clean, TypeOK
    <3> QED BY <2>1, <3>2 DEF Abstract!Next, Abstract!Report
  <2> QED BY <2>3, <2>4, <2>5 DEF TypeOK
<1>7. CASE StartNew \/ StartRestored \/ StartRaises
  BY <1>3, <1>7 DEF StartNew, StartRestored, StartRaises, Abstract!Next
<1>8. CASE SkippedAll \/ Prepare \/ Spawn \/ VerifyInline \/ Receive
  BY <1>1, <1>2, <1>8 DEF SkippedAll, Prepare, Spawn, VerifyInline, Receive,
         disk
<1>9. CASE Count \/ Found \/ PeriodicSave \/ Continue \/ EndOfPasswords
  BY <1>1, <1>2, <1>9 DEF Count, Found, PeriodicSave, Continue,
         EndOfPasswords, disk
<1>10. CASE TakeChunk \/ FinishChunk \/ Interrupt \/ Die \/ UNCHANGED vars
  BY <1>1, <1>2, <1>10 DEF TakeChunk, FinishChunk, Interrupt, Die, vars, disk
<1> QED
  BY <1>4, <1>5, <1>6, <1>7, <1>8, <1>9, <1>10 DEF Next, Main

\* "Interrupt and continue password recoveries without losing progress",
\* for every parameter: the engine with its two save slots implements Sweep.
THEOREM EngineImplementsSweep == Spec => ImplementsSweep
<1>1. Init => Abstract!Init
  BY SweepInit
<1>2. IInv /\ [Next]_vars => [Abstract!Next]_(Abstract!vars)
  BY SweepStep
<1> QED BY <1>1, <1>2, EngineInvariant, PTL DEF Spec, ImplementsSweep,
       Abstract!Spec
-----------------------------------------------------------------------------
(* What a lost process costs *)

Multiple(x, c) == \E m \in Nat : x = m * c

\* Zero is a multiple of anything.
LEMMA MultipleZero == \A c \in Nat : Multiple(0, c)
<1> SUFFICES ASSUME NEW c \in Nat PROVE \E m \in Nat : 0 = m * c
  BY DEF Multiple
<1>1. 0 = 0 * c
  OBVIOUS
<1> QED BY <1>1

\* One more chunk.
LEMMA MultipleMore ==
    ASSUME NEW c \in Nat, NEW x, Multiple(x, c)
    PROVE  Multiple(x + c, c)
<1>1. PICK m \in Nat : x = m * c
  BY DEF Multiple
<1>2. x + c = (m + 1) * c
  BY <1>1
<1> QED BY <1>2 DEF Multiple

\* The remainder test finds the multiples of the period.
LEMMA MultipleTest ==
    ASSUME NEW c \in Nat \ {0}, NEW x \in Nat
    PROVE  x % c = 0 <=> Multiple(x, c)
<1>1. ASSUME x % c = 0 PROVE Multiple(x, c)
  <2> DEFINE q == x \div c
             b == x % c
  <2>1. c \in Nat /\ c > 0
    OBVIOUS
  <2>2. q \in Nat
    BY <2>1
  <2>3. b \in 0..(c - 1) /\ b = 0
    BY <1>1, <2>1
  <2>4. x = c * q + b
    BY <2>1
  <2> HIDE DEF q, b
  <2>5. x = q * c
    BY <2>1, <2>2, <2>3, <2>4
  <2> QED BY <2>2, <2>5 DEF Multiple
<1>2. ASSUME Multiple(x, c) PROVE x % c = 0
  <2>1. PICK m \in Nat : x = m * c
    BY <1>2 DEF Multiple
  <2>2. (m * c) % c = 0
    OBVIOUS
  <2> QED BY <2>1, <2>2
<1> QED BY <1>1, <1>2

\* Why the period is made a multiple of the chunk size: while s passwords
\* were tried at the last save and t by now, a chunk more either stays under
\* a whole period past s or makes the count of tried a multiple of it.
LEMMA NotJumpedOver ==
    ASSUME NEW c \in Nat \ {0}, NEW p \in Nat \ {0}, NEW s \in Nat, NEW t \in Nat,
           Multiple(p, c), Multiple(s, p), Multiple(t, c), t - s < p,
           NEW n \in Nat, n <= c
    PROVE  /\ t + n - s <= p
           /\ t + n - s < p \/ Multiple(t + n, p)
<1>1. PICK k \in Nat : p = k * c
  BY DEF Multiple
<1>2. PICK a \in Nat : s = a * p
  BY DEF Multiple
<1>3. PICK b \in Nat : t = b * c
  BY DEF Multiple
<1> DEFINE d == b - a * k
<1>4. d \in Int /\ t - s = d * c
  <2>1. s = (a * k) * c
    BY <1>1, <1>2
  <2>2. a * k \in Nat
    OBVIOUS
  <2> QED BY <1>3, <2>1, <2>2
<1> HIDE DEF d
<1>5. d <= k - 1
  <2> SUFFICES ASSUME d >= k PROVE FALSE
    BY <1>4
  <2>1. d * c >= k * c
    BY <1>4
  <2> QED BY <1>1, <1>4, <2>1
<1>6. d * c <= (k - 1) * c
  BY <1>4, <1>5
<1>7. (k - 1) * c = p - c
  BY <1>1
<1>8. t + n - s <= p
  BY <1>4, <1>6, <1>7
<1>9. ASSUME t + n - s = p PROVE Multiple(t + n, p)
  <2>1. Multiple(s + p, p)
    BY MultipleMore
  <2>2. t + n = s + p
    BY <1>9
  <2> QED BY <2>1, <2>2
<1> QED BY <1>8, <1>9

\* From the benchmark to the end of the loop.
Underway ==
    \/ pc \in {"spawn", "loop", "got", "counted"}
    \/ pc \in {"erase", "write"} /\ return # "exit"

\* A chunk is of the chunk size, or it is the short one at the end.
Regular(c) ==
    \/ c.to = c.from + chunksize
    \/ c.to < c.from + chunksize /\ c.to = N

\* The saves come once per period: saved progress is a number of periods past
\* the start of the sitting, and a chunk is received only while the passwords
\* tried are a number of whole chunks.
PaceOK ==
    /\ Underway => Multiple(period, chunksize) /\ skip <= N
    /\ pc = "spawn" => Saved = skip
    /\ pc \in {"loop", "got", "counted"} =>
          Saved >= skip /\ Multiple(Saved - skip, period)
    /\ pc \in {"loop", "got"} => skip + tried - Saved < period
    /\ pc = "counted" /\ last.found = None =>
          skip + tried - Saved < period \/ AutosaveDue
    /\ pc = "got" => Multiple(tried, chunksize)
    /\ pc = "got" /\ last.found = None =>
          \/ last.count = chunksize
          \/ last.count < chunksize /\ skip + tried + last.count = N
    /\ Searching /\ pc # "got" => Multiple(tried, chunksize) \/ skip + tried = N
    /\ pc \in {"erase", "write"} /\ return = "loop" => Multiple(tried, period)
    /\ Searching => fed <= N /\ \A c \in busy \cup done : Regular(c)

\* What is saved is a number.
LEMMA SavedNat == TypeOK => Saved \in Nat
BY ConstantsAssumption DEF TypeOK, Saved, Readable, UseSlot, Slots, Erased

\* What is saved depends on the disk alone.
LEMMA SavedKept == UNCHANGED disk => Saved' = Saved
BY DEF disk, Saved, Readable, UseSlot

\* A completed save is what the next sitting resumes from.
LEMMA SavedWritten ==
    ASSUME IInv, WriteSlot
    PROVE  Saved' = saving
<1>1. nextslot \in {0, 1} /\ slot \in [{0, 1} -> Nat \cup {-1}] /\ saving \in Nat
  BY DEF IInv, TypeOK, Slots, Erased
<1>2. slot[1 - nextslot] >= slot[nextslot] /\ slot' = [slot EXCEPT ![nextslot] = saving]
  BY DEF IInv, WriteSlot, SlotsOK
<1>3. Saved <= saving
  BY DEF IInv, WriteSlot, ProgressOK
<1> QED
  BY <1>1, <1>2, <1>3 DEF Saved, Readable, UseSlot, Slots, Erased

\* The save period is a multiple of the chunk size from the start.
LEMMA PreparePace ==
    ASSUME IInv, PaceOK, Prepare
    PROVE  PaceOK'
<1>1. PICK p \in Periods : period' = Whole(p, chunksize') /\ skip <= N
  <2>1. skip \in Nat /\ N \in Nat
    BY ConstantsAssumption DEF IInv, TypeOK
  <2>2. PICK eta \in BOOLEAN, t \in Threads, b \in ChunkSizes, p \in Periods :
            LET share == IF eta THEN Shares(N - skip, t, b)
                         ELSE [threads |-> t, chunksize |-> b]
            IN  /\ IF eta THEN skip < N ELSE skip <= N
                /\ threads' = share.threads
                /\ chunksize' = share.chunksize
                /\ period' = Whole(p, share.chunksize)
    BY DEF Prepare
  <2>3. period' = Whole(p, chunksize') /\ skip <= N
    BY <2>1, <2>2
  <2> QED BY <2>3
<1>2. chunksize' \in Nat \ {0} /\ period' \in Nat \ {0}
  BY PrepareKeeps DEF IInv, TypeOK
<1>3. Multiple(period', chunksize')
  <2> DEFINE c == chunksize'
             k == IF p \div c = 0 THEN 1 ELSE p \div c
  <2>1. c \in Nat /\ c > 0 /\ p \in Nat
    BY <1>2, ConstantsAssumption
  <2>2. period' = k * c
    BY <1>1 DEF Whole
  <2> HIDE DEF c
  <2>3. p \div c \in Nat
    BY <2>1
  <2>4. k \in Nat
    BY <2>3
  <2> HIDE DEF k
  <2> QED BY <2>2, <2>4 DEF Multiple, c
<1>4. pc' = "erase" /\ return' = "spawn" /\ skip' = skip
  BY DEF Prepare, Autosave
<1> QED
  BY <1>1, <1>3, <1>4 DEF PaceOK, Searching, Multiple

\* Nothing has been tried, and everything handed out is to come.
LEMMA SpawnPace ==
    ASSUME IInv, PaceOK, Spawn
    PROVE  PaceOK'
<1>1. Saved' = Saved /\ Saved = skip /\ tried = 0 /\ skip <= N /\ Multiple(period, chunksize)
  BY SavedKept DEF Spawn, PaceOK, Underway, IInv, ProgressOK
<1>2. skip \in Nat /\ period \in Nat \ {0} /\ chunksize \in Nat
  BY DEF IInv, TypeOK
<1>3. Multiple(0, period) /\ Multiple(0, chunksize)
  BY <1>2, MultipleZero
<1>4. Saved - skip = 0 /\ skip + tried - Saved < period
  BY <1>1, <1>2
<1>5. /\ pc' = "loop" /\ skip' = skip /\ tried' = tried /\ fed' = skip /\ busy' = {} /\ done' = {}
      /\ period' = period /\ chunksize' = chunksize
  BY DEF Spawn, plan
<1> QED
  <2>1. Saved' - skip' = 0
    BY <1>1, <1>4, <1>5
  <2>2. Multiple(Saved - skip, period)' /\ Multiple(tried, chunksize)' /\ Multiple(period, chunksize)'
    BY <1>1, <1>3, <1>5, <2>1 DEF Multiple
  <2>3. (skip + tried - Saved < period)' /\ (Saved >= skip)'
    BY <1>1, <1>2, <1>4, <1>5
  <2> QED
    BY <1>1, <1>5, <2>2, <2>3 DEF PaceOK

\* After the save of a period nothing is unsaved.
LEMMA WriteSlotPace ==
    ASSUME IInv, PaceOK, WriteSlot
    PROVE  PaceOK'
<1>1. Saved' = saving
  BY SavedWritten
<1>2. /\ pc = "write" /\ pc' = return
      /\ UNCHANGED <<skip, tried, period, chunksize, fed, busy, done, last, return>>
  BY DEF WriteSlot, plan, pool
<1>3. skip \in Nat /\ tried \in Nat /\ period \in Nat \ {0} /\ return \in {"spawn", "loop", "exit"}
  BY DEF IInv, TypeOK
<1>4. CASE return = "spawn"
  <2>1. skip = saving
    BY <1>2, <1>4 DEF IInv, ProgressOK
  <2> QED
    BY <1>1, <1>2, <1>4, <2>1 DEF PaceOK, Underway, Searching, Multiple
<1>5. CASE return = "loop"
  <2>1. saving = skip + tried
    BY <1>2, <1>5 DEF IInv, ProgressOK
  <2>2. Saved' - skip = tried /\ Saved' >= skip /\ skip + tried - Saved' < period
    BY <1>1, <1>3, <2>1
  <2>3. Searching /\ Underway /\ Searching'
    BY <1>2, <1>5 DEF Searching, Underway
  <2>4. /\ Multiple(period, chunksize) /\ skip <= N /\ Multiple(tried, period)
        /\ Multiple(tried, chunksize) \/ skip + tried = N
        /\ fed <= N /\ \A c \in busy \cup done : Regular(c)
    BY <1>2, <1>5, <2>3 DEF PaceOK
  <2> QED
    BY <1>2, <1>5, <2>2, <2>4 DEF PaceOK, Multiple, Regular
<1>6. CASE return = "exit"
  BY <1>2, <1>6 DEF PaceOK, Underway, Searching
<1> QED BY <1>3, <1>4, <1>5, <1>6

\* What verifying a chunk that adjoins the passwords tried tells main().
LEMMA ChunkReceived ==
    ASSUME IInv, PaceOK, pc = "loop", pc' = "got",
           NEW c \in Chunks, c.from = skip + tried, c.from < c.to, c.to <= N, Regular(c),
           Verify(c), fed' <= N, busy' \cup done' \subseteq busy \cup done,
           UNCHANGED <<disk, plan, skip, tried>>
    PROVE  PaceOK'
<1> USE DEF disk, plan
<1>1. Saved' = Saved
  BY SavedKept
<1>2. skip \in Nat /\ tried \in Nat /\ c.from \in Nat /\ c.to \in Nat /\ chunksize \in Nat /\ N \in Nat
  BY ConstantsAssumption DEF IInv, TypeOK, Chunks
<1>3. Multiple(tried, chunksize)
  <2>1. skip + tried # N
    BY <1>2
  <2> QED
    BY <2>1 DEF PaceOK, Searching
<1>4. last'.found = None => last'.count = c.to - c.from
  BY DEF Verify
<1>5. last'.found = None =>
          \/ last'.count = chunksize
          \/ last'.count < chunksize /\ skip + tried + last'.count = N
  BY <1>2, <1>4 DEF Regular
<1>6. /\ Multiple(period, chunksize) /\ skip <= N
      /\ Saved >= skip /\ Multiple(Saved - skip, period)
      /\ skip + tried - Saved < period
      /\ \A x \in busy \cup done : Regular(x)
  BY DEF PaceOK, Underway, Searching
<1> HIDE DEF Verify
<1> QED
  BY <1>1, <1>3, <1>5, <1>6 DEF PaceOK, Multiple, Regular, Underway

\* Receiving a result keeps the pace.
LEMMA ReceivePace ==
    ASSUME IInv, PaceOK, Receive
    PROVE  PaceOK'
<1>1. PICK c \in done : c.from = skip + tried /\ Verify(c) /\ done' = done \ {c}
  BY DEF Receive
<1>2. c \in Chunks /\ c.from < c.to /\ c.to <= fed
  BY <1>1 DEF IInv, TypeOK, PoolOK, Searching, Receive
<1>3. Regular(c) /\ fed <= N
  BY DEF PaceOK, Searching, Receive
<1>4. c.to <= N
  BY <1>2, <1>3, ConstantsAssumption DEF IInv, TypeOK, Chunks
<1>5. pc = "loop" /\ pc' = "got" /\ fed' = fed /\ busy' = busy /\ UNCHANGED <<disk, plan, skip, tried>>
  BY DEF Receive
<1> QED
  BY <1>1, <1>2, <1>3, <1>4, <1>5, ChunkReceived

\* Testing in the process itself keeps the pace.
LEMMA VerifyInlinePace ==
    ASSUME IInv, PaceOK, VerifyInline
    PROVE  PaceOK'
<1>1. /\ fed \in Nat /\ chunksize \in Nat \ {0} /\ N \in Nat /\ fed < N
      /\ skip \in Nat /\ tried \in Nat
  BY ConstantsAssumption DEF IInv, TypeOK, VerifyInline
<1>2. /\ NextChunk \in Chunks /\ NextChunk.from = fed /\ NextChunk.from < NextChunk.to
      /\ NextChunk.to <= N /\ Regular(NextChunk)
  BY <1>1 DEF NextChunk, Chunks, Least, Regular
<1>3. fed = skip + tried
  <2>1. /\ skip + tried <= fed /\ busy \cup done = {}
        /\ \A i \in skip + tried + 1 .. fed :
              \E c \in busy \cup done : c.from < i /\ i <= c.to
    BY DEF IInv, PoolOK, Searching, Front, VerifyInline
  <2>2. ~(fed \in skip + tried + 1 .. fed)
    BY <2>1
  <2> QED
    BY <1>1, <2>1, <2>2
<1>4. /\ pc = "loop" /\ pc' = "got" /\ fed' = NextChunk.to /\ busy' = busy /\ done' = done
      /\ Verify(NextChunk) /\ UNCHANGED <<disk, plan, skip, tried>>
  BY DEF VerifyInline
<1> QED
  BY <1>2, <1>3, <1>4, ChunkReceived

\* A chunk is counted: less than a period is unsaved, or a save is due.
LEMMA CountPace ==
    ASSUME IInv, PaceOK, Count
    PROVE  PaceOK'
<1>1. /\ pc = "got" /\ pc' = "counted"
      /\ UNCHANGED <<disk, skip, period, chunksize, fed, busy, done, last>>
  BY DEF Count, plan, pool
<1>2. Saved' = Saved
  BY <1>1, SavedKept
<1>3. /\ skip \in Nat /\ tried \in Nat /\ period \in Nat \ {0} /\ chunksize \in Nat \ {0}
      /\ last.count \in Nat /\ Saved \in Nat
  BY SavedNat DEF IInv, TypeOK
<1>4. /\ Multiple(period, chunksize) /\ skip <= N
      /\ Saved >= skip /\ Multiple(Saved - skip, period)
      /\ skip + tried - Saved < period /\ Multiple(tried, chunksize)
  BY <1>1 DEF PaceOK, Underway
<1>5. CASE last.found # None
  BY <1>1, <1>2, <1>4, <1>5 DEF PaceOK, Searching, Multiple
<1>6. CASE last.found = None
  <2>1. tried' = tried + last.count
    BY <1>6 DEF Count
  <2>2. \/ last.count = chunksize
        \/ last.count < chunksize /\ skip + tried + last.count = N
    BY <1>1, <1>6 DEF PaceOK
  <2>3. Multiple(tried', chunksize) \/ skip + tried' = N
    BY <1>3, <1>4, <2>1, <2>2, MultipleMore
  <2>4. skip + tried' - Saved < period \/ Multiple(tried', period)
    <3> DEFINE s == Saved - skip
    <3>1. s \in Nat /\ tried - s < period /\ last.count <= chunksize
      BY <1>3, <1>4, <2>2
    <3>2. Multiple(s, period)
      BY <1>4
    <3>3. tried + last.count - s = skip + tried' - Saved
      BY <1>3, <2>1
    <3> HIDE DEF s
    <3> QED
      BY <1>3, <1>4, <2>1, <3>1, <3>2, <3>3, NotJumpedOver
  <2>5. Multiple(tried', period) => AutosaveDue'
    BY <1>1, <1>3, <2>1, MultipleTest DEF AutosaveDue
  <2>6. Searching /\ Searching'
    BY <1>1, <1>6 DEF Searching
  <2>7. fed <= N /\ \A c \in busy \cup done : Regular(c)
    BY <2>6 DEF PaceOK
  <2> HIDE DEF AutosaveDue
  <2> QED
    BY <1>1, <1>2, <1>4, <2>3, <2>4, <2>5, <2>7 DEF PaceOK, Multiple, Regular
<1> QED BY <1>5, <1>6

\* Deciding for the periodic save keeps the pace.
LEMMA PeriodicSavePace ==
    ASSUME IInv, PaceOK, PeriodicSave
    PROVE  PaceOK'
<1>1. /\ pc = "counted" /\ last.found = None /\ AutosaveDue /\ pc' = "erase" /\ return' = "loop"
      /\ UNCHANGED <<skip, tried, period, chunksize, fed, busy, done, last>>
  BY DEF PeriodicSave, Autosave, plan, pool
<1>2. Multiple(tried, period)
  BY <1>1, MultipleTest DEF AutosaveDue, IInv, TypeOK
<1>3. Searching /\ Searching'
  BY <1>1 DEF Searching
<1>4. /\ Multiple(period, chunksize) /\ skip <= N
      /\ Multiple(tried, chunksize) \/ skip + tried = N
      /\ fed <= N /\ \A c \in busy \cup done : Regular(c)
  BY <1>1, <1>3 DEF PaceOK, Underway
<1> QED
  BY <1>1, <1>2, <1>4 DEF PaceOK, Multiple, Regular

\* Going on without a save keeps the pace.
LEMMA ContinuePace ==
    ASSUME IInv, PaceOK, Continue
    PROVE  PaceOK'
<1>1. /\ pc = "counted" /\ last.found = None /\ ~AutosaveDue /\ pc' = "loop"
      /\ UNCHANGED <<disk, skip, tried, period, chunksize, fed, busy, done, last>>
  BY DEF Continue, plan, pool
<1>2. Saved' = Saved
  BY <1>1, SavedKept
<1>3. Searching
  BY <1>1 DEF Searching
<1>4. /\ Multiple(period, chunksize) /\ skip <= N
      /\ Saved >= skip /\ Multiple(Saved - skip, period)
      /\ skip + tried - Saved < period
      /\ Multiple(tried, chunksize) \/ skip + tried = N
      /\ fed <= N /\ \A c \in busy \cup done : Regular(c)
  BY <1>1, <1>3 DEF PaceOK, Underway
<1> QED
  BY <1>1, <1>2, <1>4 DEF PaceOK, Multiple, Regular

\* The workers change nothing that is counted.
LEMMA WorkersPace ==
    ASSUME IInv, PaceOK, TakeChunk \/ FinishChunk
    PROVE  PaceOK'
<1>1. /\ UNCHANGED <<disk, pc, return, skip, tried, period, chunksize, last>>
  BY DEF TakeChunk, FinishChunk, plan
<1>2. Saved' = Saved
  BY <1>1, SavedKept
<1>3. Searching => fed' <= N /\ \A c \in busy' \cup done' : Regular(c)
  <2> SUFFICES ASSUME Searching PROVE fed' <= N /\ \A c \in busy' \cup done' : Regular(c)
    OBVIOUS
  <2>1. fed <= N /\ \A c \in busy \cup done : Regular(c)
    BY DEF PaceOK
  <2>2. CASE FinishChunk
    BY <2>1, <2>2 DEF FinishChunk
  <2>3. CASE TakeChunk
    <3>1. /\ fed \in Nat /\ chunksize \in Nat \ {0} /\ N \in Nat /\ fed < N
      BY <2>3, ConstantsAssumption DEF IInv, TypeOK, TakeChunk
    <3>2. NextChunk.to <= N /\ Regular(NextChunk)
      BY <3>1 DEF NextChunk, Least, Regular
    <3> QED
      BY <2>1, <2>3, <3>2 DEF TakeChunk
  <2> QED BY <2>2, <2>3
<1>4. (Searching' <=> Searching) /\ (AutosaveDue' <=> AutosaveDue) /\ (Underway' <=> Underway)
  BY <1>1 DEF Searching, AutosaveDue, Underway
<1>5. (\A c \in busy \cup done : Regular(c))' <=> \A c \in busy' \cup done' : Regular(c)
  BY <1>1 DEF Regular
<1> HIDE DEF Searching, AutosaveDue, Underway
<1> QED
  BY <1>1, <1>2, <1>3, <1>4, <1>5 DEF PaceOK, Multiple

\* Erasing a slot before it is written keeps the pace.
LEMMA EraseSlotPace ==
    ASSUME IInv, PaceOK, EraseSlot
    PROVE  PaceOK'
<1>1. /\ pc = "erase" /\ pc' = "write"
      /\ UNCHANGED <<return, skip, tried, period, chunksize, fed, busy, done, last>>
  BY DEF EraseSlot, plan, pool
<1> QED
  BY <1>1 DEF PaceOK, Underway, Searching, Multiple, Regular

\* A sitting that ends, or has not begun to search, promises nothing.
LEMMA OtherPace ==
    ASSUME IInv, PaceOK,
           \/ StartNew \/ StartRestored \/ StartRaises \/ SkippedAll
           \/ Found \/ EndOfPasswords \/ Return \/ Interrupt \/ Die
    PROVE  PaceOK'
<1>1. \/ pc' \in {"off", "ready", "exit"}
      \/ pc' = "erase" /\ return' = "exit"
  BY DEF StartNew, StartRestored, StartRaises, SkippedAll, Found, EndOfPasswords,
         Return, Interrupt, Die, Autosave
<1> QED
  BY <1>1 DEF PaceOK, Underway, Searching

\* A chunk adds no more than its size, and what was counted since the last
\* save is at most a period, also in the save that is due.
DebtOK ==
    /\ pc = "got" => last.count <= chunksize
    /\ Handling /\ pc # "got" => skip + tried - Saved <= period

\* A result has no more passwords than its chunk.
LEMMA ReceivedDebt ==
    ASSUME IInv, PaceOK, Receive \/ VerifyInline
    PROVE  DebtOK'
<1>1. PICK c \in Chunks : c.to <= c.from + chunksize /\ Verify(c)
  <2>1. CASE Receive
    <3>1. PICK c \in done : Verify(c)
      BY <2>1 DEF Receive
    <3>2. c \in Chunks /\ Regular(c) /\ chunksize \in Nat
      BY <2>1 DEF IInv, TypeOK, PaceOK, Searching, Receive
    <3> QED
      BY <3>1, <3>2 DEF Regular, Chunks
  <2>2. CASE VerifyInline
    <3>1. fed \in Nat /\ chunksize \in Nat \ {0} /\ N \in Nat /\ fed < N
      BY <2>2, ConstantsAssumption DEF IInv, TypeOK, VerifyInline
    <3>2. NextChunk \in Chunks /\ NextChunk.to <= NextChunk.from + chunksize
      BY <3>1 DEF NextChunk, Chunks, Least
    <3> QED
      BY <2>2, <3>2 DEF VerifyInline
  <2> QED BY <2>1, <2>2
<1>2. c.from \in Nat /\ c.to \in Nat /\ chunksize \in Nat /\ targets \subseteq Nat
  BY ConstantsAssumption DEF IInv, TypeOK, Chunks
<1>3. last'.count <= chunksize
  <2>1. PICK t \in targets \cup {None} :
            /\ IF Hits(c) = {} THEN t = None ELSE t \in Hits(c)
            /\ last'.count = (IF t = None THEN c.to ELSE t) - c.from
    BY <1>1 DEF Verify
  <2>2. t # None => t \in Nat /\ t <= c.to
    BY <1>2, <2>1 DEF Hits
  <2> QED BY <1>1, <1>2, <2>1, <2>2
<1>4. pc' = "got" /\ chunksize' = chunksize
  BY DEF Receive, VerifyInline, plan
<1> QED
  BY <1>3, <1>4 DEF DebtOK, Handling

\* A result that is counted leaves at most a period to be saved.
LEMMA CountedWithin ==
    ASSUME IInv, PaceOK, DebtOK, pc = "got"
    PROVE  skip + tried + last.count - Saved <= period
<1>1. /\ skip \in Nat /\ tried \in Nat /\ last.count \in Nat /\ Saved \in Nat
      /\ period \in Nat \ {0} /\ chunksize \in Nat \ {0}
  BY SavedNat DEF IInv, TypeOK
<1>2. /\ Multiple(period, chunksize) /\ Saved >= skip /\ Multiple(Saved - skip, period)
      /\ skip + tried - Saved < period /\ Multiple(tried, chunksize)
      /\ last.count <= chunksize
  BY DEF PaceOK, DebtOK, Underway
<1> DEFINE s == Saved - skip
<1>3. s \in Nat /\ tried - s < period /\ Multiple(s, period)
  BY <1>1, <1>2
<1>4. tried + last.count - s = skip + tried + last.count - Saved
  BY <1>1
<1> HIDE DEF s
<1> QED
  BY <1>1, <1>2, <1>3, <1>4, NotJumpedOver

\* Erasing a slot does not change what a new sitting resumes from.
LEMMA EraseKeepsSaved ==
    ASSUME IInv, EraseSlot
    PROVE  Saved' = Saved
<1>1. nextslot \in {0, 1} /\ slot \in [{0, 1} -> Nat \cup {-1}]
  BY DEF IInv, TypeOK, Slots, Erased
<1>2. slot[1 - nextslot] >= slot[nextslot] /\ slot' = [slot EXCEPT ![nextslot] = -1]
  BY DEF IInv, EraseSlot, SlotsOK, Erased
<1> QED
  BY <1>1, <1>2 DEF Saved, Readable, UseSlot, Slots, Erased

\* Every step keeps the debt.
LEMMA NextDebt ==
    ASSUME IInv, PaceOK, DebtOK, Next
    PROVE  DebtOK'
<1> USE SavedNat DEF IInv, TypeOK
<1>1. CASE Receive \/ VerifyInline
  BY <1>1, ReceivedDebt
<1>2. CASE Count
  <2>1. skip + tried + last.count - Saved <= period
    BY <1>2, CountedWithin DEF Count
  <2>2. tried' \in Int /\ tried' <= tried + last.count
    BY <1>2 DEF Count
  <2>3. Saved' = Saved
    BY <1>2, SavedKept DEF Count
  <2>4. skip' = skip /\ period' = period /\ pc' = "counted"
    BY <1>2 DEF Count, plan
  <2> QED
    BY <2>1, <2>2, <2>3, <2>4 DEF DebtOK
<1>3. CASE EraseSlot
  <2>1. Saved' = Saved
    BY <1>3, EraseKeepsSaved
  <2> QED
    BY <1>3, <2>1 DEF EraseSlot, DebtOK, Handling, plan
<1>4. CASE Found \/ PeriodicSave \/ Interrupt \/ EndOfPasswords
  <2>1. /\ pc \in {"loop", "got", "counted"} /\ pc' = "erase"
        /\ UNCHANGED <<disk, skip, tried, period>>
    BY <1>4 DEF Found, PeriodicSave, Interrupt, EndOfPasswords, Autosave, plan
  <2>2. Saved' = Saved
    BY <2>1, SavedKept
  <2>3. skip + tried - Saved <= period
    BY <2>1 DEF PaceOK, DebtOK, Handling
  <2> QED
    BY <2>1, <2>2, <2>3 DEF DebtOK
<1>5. CASE TakeChunk \/ FinishChunk
  <2>1. UNCHANGED <<disk, pc, return, skip, tried, period, chunksize, last>>
    BY <1>5 DEF TakeChunk, FinishChunk, plan
  <2>2. Saved' = Saved
    BY <2>1, SavedKept
  <2> QED
    BY <2>1, <2>2 DEF DebtOK, Handling
<1>6. CASE WriteSlot
  BY <1>6 DEF WriteSlot, DebtOK, Handling
<1>7. CASE \/ StartNew \/ StartRestored \/ StartRaises \/ SkippedAll \/ Prepare
           \/ Spawn \/ Continue \/ Return \/ Die
  <2>1. \/ pc' \in {"off", "ready", "exit", "loop"}
        \/ pc' = "erase" /\ return' = "spawn"
    BY <1>7 DEF StartNew, StartRestored, StartRaises, SkippedAll, Prepare, Spawn,
                Continue, Return, Die, Autosave
  <2> QED
    BY <2>1 DEF DebtOK, Handling
<1> QED
  BY <1>1, <1>2, <1>3, <1>4, <1>5, <1>6, <1>7 DEF Next, Main

\* A sitting resumed from the file repeats at most one save period of the
\* passwords whose results were received, for every period, chunk size, pool
\* and moment.
THEOREM EngineLosesLittle == Spec => []LostWorkBounded
<1>1. Init => PaceOK
  BY DEF Init, PaceOK, Underway, Searching
<1>2. IInv /\ PaceOK /\ [Next]_vars => PaceOK'
  <2> SUFFICES ASSUME IInv, PaceOK, [Next]_vars PROVE PaceOK'
    OBVIOUS
  <2>1. CASE UNCHANGED vars
    BY <2>1 DEF vars, disk, plan, pool, PaceOK, Underway, Searching, Saved, Readable,
           UseSlot, AutosaveDue, Multiple, Regular
  <2>2. CASE Main
    BY <2>2, PreparePace, SpawnPace, EraseSlotPace, WriteSlotPace, VerifyInlinePace,
       ReceivePace, CountPace, PeriodicSavePace, ContinuePace, OtherPace DEF Main
  <2>3. CASE TakeChunk \/ FinishChunk \/ Interrupt \/ Die
    BY <2>3, WorkersPace, OtherPace
  <2> QED BY <2>1, <2>2, <2>3 DEF Next
<1>3. Init => DebtOK
  BY DEF Init, DebtOK, Handling
<1>4. IInv /\ PaceOK /\ DebtOK /\ [Next]_vars => DebtOK'
  <2>1. UNCHANGED vars /\ DebtOK => DebtOK'
    BY DEF vars, disk, plan, DebtOK, Handling, Saved, Readable, UseSlot
  <2> QED BY <2>1, NextDebt
<1>5. IInv /\ PaceOK /\ DebtOK => LostWorkBounded
  <2> SUFFICES ASSUME IInv, PaceOK, DebtOK PROVE LostWorkBounded
    OBVIOUS
  <2> USE SavedNat DEF IInv, TypeOK
  <2>1. CASE pc = "got"
    <3>1. skip + tried + last.count - Saved <= period
      BY <2>1, CountedWithin
    <3>2. Front = skip + tried + last.count
      BY <2>1 DEF Front
    <3> QED BY <2>1, <3>1, <3>2 DEF LostWorkBounded
  <2>2. CASE pc # "got"
    <3>1. Front = skip + tried
      BY <2>2 DEF Front
    <3>2. pc = "loop" => skip + tried - Saved < period
      BY DEF PaceOK
    <3>3. Handling => skip + tried - Saved <= period
      BY <2>2 DEF DebtOK
    <3> QED BY <3>1, <3>2, <3>3 DEF LostWorkBounded
  <2> QED BY <2>1, <2>2
<1> QED BY <1>1, <1>2, <1>3, <1>4, <1>5, EngineInvariant, PTL DEF Spec
=============================================================================
