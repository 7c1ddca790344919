------------------------------ MODULE FastCommit ------------------------------
(***************************************************************************)
(* PersistentSlabStorage.FastCommit of storage.go: the sorted owned delta *)
(* keys are queued on a buffered jobs channel, numWorkers encoder         *)
(* goroutines encode them and send the results on a buffered results      *)
(* channel, and the calling goroutine collects one result per key before  *)
(* it calls the base store in key order.  On the first encoding error it  *)
(* returns; its deferred calls close results and then jobs.               *)
(*                                                                         *)
(* The caller's other storage operations (PersistentSlabStorage) run only *)
(* while no FastCommit call is in progress, but encoder goroutines of a   *)
(* call that returned early may still be running.  A send on a closed     *)
(* channel panics: the program stops.                                     *)
(***************************************************************************)
EXTENDS PersistentSlabStorage

CONSTANTS
    Workers,        \* the numWorkers encoder goroutines
    Nil             \* the nil byte slice of a removed slab's result

VARIABLES
    fcState,        \* the calling goroutine: "idle", "collect" or "apply"
    fcKeys,         \* keysWithOwners; during "apply" the keys still to write
    jobs,           \* contents of the jobs channel
    jobsClosed,
    results,        \* contents of the results channel
    resultsClosed,
    received,       \* results collected so far (the loop counter i)
    encSlabByID,    \* collected encodings by StorageID
    wpc,            \* encoder goroutine program counters
    wjob,           \* the id an encoder is working on
    wres,           \* the result an encoder is about to send
    panicked        \* a send on a closed channel has crashed the program

fcVars == <<fcState, fcKeys, jobs, jobsClosed, results, resultsClosed, received,
            encSlabByID, wpc, wjob, wres, panicked>>
allVars == <<vars, fcVars>>
storeVars == <<segments, storageIndex, cache, deltas, tempStorageIndex, autoCommit, allocated,
               committing, commitKeys>>

Result == [id : OwnedStorageIDs, data : EncodedData \cup {Nil}, err : BOOLEAN]

FastCommitTypeOK ==
    /\ TypeOK
    /\ fcState \in {"idle", "collect", "apply"}
    /\ fcKeys \in Seq(OwnedStorageIDs)
    /\ jobs \in Seq(OwnedStorageIDs)
    /\ results \in Seq(Result)
    /\ {jobsClosed, resultsClosed, panicked} \subseteq BOOLEAN
    /\ received \in Nat
    /\ encSlabByID \in [OwnedStorageIDs -> EncodedData \cup {Nil}]
    /\ wpc \in [Workers -> {"idle", "recv", "encode", "send", "exit"}]
    /\ wjob \in [Workers -> OwnedStorageIDs \cup {Nil}]
    /\ wres \in [Workers -> Result \cup {Nil}]

FastCommitInit ==
    /\ Init
    /\ fcState = "idle"
    /\ fcKeys = <<>>
    /\ jobs = <<>>
    /\ jobsClosed = FALSE
    /\ results = <<>>
    /\ resultsClosed = FALSE
    /\ received = 0
    /\ encSlabByID = [id \in OwnedStorageIDs |-> Nil]
    /\ wpc = [w \in Workers |-> "idle"]
    /\ wjob = [w \in Workers |-> Nil]
    /\ wres = [w \in Workers |-> Nil]
    /\ panicked = FALSE

\* The deferred close(results) and close(jobs) of every return.
CloseChannels == resultsClosed' = TRUE /\ jobsClosed' = TRUE

-----------------------------------------------------------------------------
(* The calling goroutine.                                                  *)

\* Queue the jobs, create the results channel, launch the encoders.
FastCommitBegin ==
    /\ Idle
    /\ fcState = "idle"
    /\ \A w \in Workers : wpc[w] \in {"idle", "exit"}
    /\ fcState' = "collect"
    /\ fcKeys' = sortedOwnedDeltaKeys
    /\ jobs' = sortedOwnedDeltaKeys
    /\ jobsClosed' = FALSE
    /\ results' = <<>>
    /\ resultsClosed' = FALSE
    /\ received' = 0
    /\ encSlabByID' = [id \in OwnedStorageIDs |-> Nil]
    /\ wpc' = [w \in Workers |-> "recv"]
    /\ UNCHANGED <<storeVars, wjob, wres, panicked>>

(* Receive one result.  An error returns at once (closing both channels);  *)
(* otherwise the encoding is kept by StorageID.                            *)
FastCommitCollect ==
    LET r == Head(results) IN
    /\ fcState = "collect"
    /\ received < Len(fcKeys)
    /\ results # <<>>
    /\ results' = Tail(results)
    /\ \/ /\ r.err
          /\ fcState' = "idle"
          /\ CloseChannels
          /\ UNCHANGED <<encSlabByID, received>>
       \/ /\ ~r.err
          /\ encSlabByID' = [encSlabByID EXCEPT ![r.id] = r.data]
          /\ received' = received + 1
          /\ UNCHANGED <<fcState, jobsClosed, resultsClosed>>
    /\ UNCHANGED <<vars, fcKeys, jobs, wpc, wjob, wres, panicked>>

\* Mutation: the collect loop stops one result short.
FastCommitApplyEarly ==
    /\ fcState = "collect"
    /\ received = Len(fcKeys) - 1
    /\ fcState' = "apply"
    /\ UNCHANGED <<vars, fcKeys, jobs, jobsClosed, results, resultsClosed,
                   received, encSlabByID, wpc, wjob, wres, panicked>>

\* All len(keysWithOwners) results are in: start calling the base store.
FastCommitApply ==
    /\ fcState = "collect"
    /\ received = Len(fcKeys)
    /\ fcState' = "apply"
    /\ UNCHANGED <<vars, fcKeys, jobs, jobsClosed, results, resultsClosed,
                   received, encSlabByID, wpc, wjob, wres, panicked>>

(* One key in order: nil data removes, other data is stored and the       *)
(* delta's slab goes to the read cache.                                   *)
FastCommitApplyStep ==
    LET id == Head(fcKeys) IN
    /\ fcState = "apply"
    /\ fcKeys # <<>>
    /\ \/ /\ encSlabByID[id] = Nil
          /\ BaseRemove(id)
          /\ UNCHANGED cache
       \/ /\ encSlabByID[id] # Nil
          /\ BaseStore(id, encSlabByID[id])
          /\ cache' = [cache EXCEPT ![id] = deltas[id]]
    /\ fcKeys' = Tail(fcKeys)
    /\ UNCHANGED <<storageIndex, deltas, tempStorageIndex, autoCommit, allocated, committing,
                   commitKeys, fcState, jobs, jobsClosed, results, resultsClosed,
                   received, encSlabByID, wpc, wjob, wres, panicked>>

\* The base Store or Remove returns an error: return it.
FastCommitApplyFail ==
    /\ fcState = "apply"
    /\ fcKeys # <<>>
    /\ BaseMayFail
    /\ fcState' = "idle"
    /\ CloseChannels
    /\ UNCHANGED <<vars, fcKeys, jobs, results, received, encSlabByID, wpc, wjob,
                   wres, panicked>>

\* Mutation: the successful return does not close the jobs channel.
FastCommitEndKeepsJobsOpen ==
    /\ fcState = "apply"
    /\ fcKeys = <<>>
    /\ fcState' = "idle"
    /\ deltas' = [id \in StorageIDs |-> NoEntry]
    /\ resultsClosed' = TRUE
    /\ UNCHANGED <<segments, storageIndex, cache, tempStorageIndex, autoCommit, allocated,
                   committing, commitKeys, fcKeys, jobs, jobsClosed,
                   results, received, encSlabByID, wpc, wjob, wres, panicked>>

\* Every key written: reset deltas and return.
FastCommitEnd ==
    /\ fcState = "apply"
    /\ fcKeys = <<>>
    /\ fcState' = "idle"
    /\ deltas' = [id \in StorageIDs |-> NoEntry]
    /\ CloseChannels
    /\ UNCHANGED <<segments, storageIndex, cache, tempStorageIndex, autoCommit, allocated,
                   committing, commitKeys, fcKeys, jobs, results,
                   received, encSlabByID, wpc, wjob, wres, panicked>>

-----------------------------------------------------------------------------
(* An encoder goroutine: for id := range jobs { encode; send }.            *)

WorkerRecv(w) ==
    /\ wpc[w] = "recv"
    /\ jobs # <<>>
    /\ wjob' = [wjob EXCEPT ![w] = Head(jobs)]
    /\ jobs' = Tail(jobs)
    /\ wpc' = [wpc EXCEPT ![w] = "encode"]
    /\ UNCHANGED <<vars, fcState, fcKeys, jobsClosed, results, resultsClosed,
                   received, encSlabByID, wres, panicked>>

\* range over a closed and drained channel ends the loop.
WorkerExit(w) ==
    /\ wpc[w] = "recv"
    /\ jobs = <<>>
    /\ jobsClosed
    /\ wpc' = [wpc EXCEPT ![w] = "exit"]
    /\ UNCHANGED <<vars, fcState, fcKeys, jobs, jobsClosed, results, resultsClosed,
                   received, encSlabByID, wjob, wres, panicked>>

(* Read the delta: a nil slab, or no entry at all (a missing key reads as *)
(* nil), gives nil data; any other slab is encoded, which may fail.       *)
WorkerEncode(w) ==
    LET id == wjob[w] IN
    /\ wpc[w] = "encode"
    /\ \/ /\ deltas[id] \in {Tombstone, NoEntry}
          /\ wres' = [wres EXCEPT ![w] = [id |-> id, data |-> Nil, err |-> FALSE]]
       \/ /\ deltas[id] \in SlabValues
          /\ wres' = [wres EXCEPT ![w] = [id |-> id, data |-> Encode(deltas[id]), err |-> FALSE]]
       \/ /\ deltas[id] \in SlabValues
          /\ EncodeMayFail
          /\ wres' = [wres EXCEPT ![w] = [id |-> id, data |-> Nil, err |-> TRUE]]
    /\ wpc' = [wpc EXCEPT ![w] = "send"]
    /\ UNCHANGED <<vars, fcState, fcKeys, jobs, jobsClosed, results, resultsClosed,
                   received, encSlabByID, wjob, panicked>>

\* results <- r: on a closed channel this panics.
WorkerSend(w) ==
    /\ wpc[w] = "send"
    /\ \/ /\ ~resultsClosed
          /\ results' = Append(results, wres[w])
          /\ wpc' = [wpc EXCEPT ![w] = "recv"]
          /\ UNCHANGED panicked
       \/ /\ resultsClosed
          /\ panicked' = TRUE
          /\ UNCHANGED <<results, wpc>>
    /\ UNCHANGED <<vars, fcState, fcKeys, jobs, jobsClosed, resultsClosed,
                   received, encSlabByID, wjob, wres>>

-----------------------------------------------------------------------------
\* The caller's other operations, between FastCommit calls.
StorageStep == fcState = "idle" /\ Next /\ UNCHANGED fcVars

Caller ==
    \/ StorageStep
    \/ FastCommitBegin
    \/ FastCommitCollect
    \/ FastCommitApply
    \/ FastCommitApplyStep
    \/ FastCommitApplyFail
    \/ FastCommitEnd

Encoder(w) == WorkerRecv(w) \/ WorkerExit(w) \/ WorkerEncode(w) \/ WorkerSend(w)

\* After a panic nothing runs any more.
Crashed == panicked /\ UNCHANGED allVars

FastCommitNext ==
    \/ ~panicked /\ Caller
    \/ \E w \in Workers : ~panicked /\ Encoder(w)
    \/ Crashed

(* The Go scheduler runs every runnable goroutine eventually.              *)
FastCommitSpec ==
    /\ FastCommitInit
    /\ [][FastCommitNext]_allVars
    /\ WF_allVars(~panicked /\ fcState # "idle" /\ Caller)
    /\ \A w \in Workers : WF_allVars(~panicked /\ Encoder(w))

-----------------------------------------------------------------------------
(* Properties.                                                             *)

(* No encoder goroutine sends on the results channel after the calling     *)
(* goroutine's deferred close(results) has run.                            *)
NoSendOnClosedChannel == ~panicked

(* When FastCommit has written every key, the base store holds every       *)
(* owned pending write, as Commit would leave it: the results, collected   *)
(* in whatever order the encoders finish, are matched back to their keys.  *)
FastCommitDeltasPersisted ==
    fcState = "apply" /\ fcKeys = <<>> =>
        \A id \in OwnedDeltaKeys : Persisted(id) = View(id)


(* Every encoder goroutine a FastCommit launches eventually leaves its     *)
(* range loop (or the program has crashed): none is leaked blocked on the  *)
(* jobs channel, after a successful return or an early error return.       *)
EncodersTerminate ==
    \A w \in Workers : (wpc[w] \in {"recv", "encode", "send"}) ~> (wpc[w] = "exit" \/ panicked)

==============================================================================
