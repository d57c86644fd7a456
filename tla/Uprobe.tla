------------------------------- MODULE Uprobe -------------------------------
(***************************************************************************)
(* The kernel side of the tracer: the BPF program handle_user_function     *)
(* (bpf/trace.bpf.c), which the kernel runs on the thread that enters a    *)
(* probed function, and its two maps.                                      *)
(*                                                                         *)
(* Threads of the traced program run handle_user_function concurrently.    *)
(* Its four map helpers (lookup, update, reserve, submit) are each atomic  *)
(* but nothing orders the helpers of two threads, so there is one action   *)
(* per helper.  A function is identified by its cookie.                    *)
(***************************************************************************)
EXTENDS Naturals, Sequences, FiniteSets, Functions

CONSTANTS
  Cookies,     \* the cookies of the functions of the tracee
  Threads,     \* the threads of the traced program
  ZeroCookie,  \* the cookie 0: a cleared program slot, or an empty event
  NoThread,    \* no owner: the record was submitted
  SeenCap,     \* max_entries of seen_funcs (40960)
  RingCap      \* records the ring buffer can hold (1 << 28 bytes)

ASSUME ConstantsAssumption ==
  /\ IsFiniteSet(Cookies) /\ Cookies # {}
  /\ ZeroCookie \notin Cookies
  /\ NoThread \notin Threads
  /\ SeenCap \in Nat
  /\ RingCap \in Nat

VARIABLES
  attached,  \* the cookies whose functions carry a probe
  prog,      \* prog[t]: the next helper of t's run of the program
  seen,      \* the keys of the map seen_funcs
  ring,      \* the ring buffer: reserved and submitted records, oldest first
  hits,      \* history: cookies of the functions entered under a probe
  lost       \* history: cookies whose event found the ring full

probeVars == <<prog, seen, ring, hits, lost>>

\* A record of the ring is busy, hence invisible to the consumer, until the
\* thread that reserved it submits it.
Record == [cookie : Cookies, owner : Threads \cup {NoThread}]

InUser == [at |-> "user", cookie |-> ZeroCookie]

ProbeInit ==
  /\ attached = {}
  /\ prog = [t \in Threads |-> InUser]
  /\ seen = {}
  /\ ring = <<>>
  /\ hits = {}
  /\ lost = {}

Goto(t, at, cookie) == prog' = [prog EXCEPT ![t] = [at |-> at, cookie |-> cookie]]

(***************************************************************************)
(* Thread t enters a probed function: bpf_get_attach_cookie and the lookup *)
(* in seen_funcs.  A function already seen ends the program at once.       *)
(***************************************************************************)
Enter(t, c) ==
  /\ prog[t].at = "user"
  /\ c \in attached
  /\ hits' = hits \cup {c}
  /\ IF c \in seen THEN UNCHANGED prog ELSE Goto(t, "mark", c)
  /\ UNCHANGED <<seen, ring, lost>>

\* Fault: the update of seen_funcs is left out.
SeenWithout(c) == seen

\* The keys after bpf_map_update_elem(.., BPF_ANY): a full map takes no new key.
SeenWith(c) ==
  IF Cardinality(seen) < SeenCap THEN seen \cup {c} ELSE seen

\* The update of seen_funcs.  Its result is ignored: the event is sent even
\* when the function could not be recorded.
MarkSeen(t) ==
  /\ prog[t].at = "mark"
  /\ seen' = SeenWith(prog[t].cookie)
  /\ Goto(t, "reserve", prog[t].cookie)
  /\ UNCHANGED <<ring, hits, lost>>

\* Fault: one record too many fits.
ReserveOffByOne(t) ==
  /\ prog[t].at = "reserve"
  /\ Len(ring) <= RingCap
  /\ ring' = Append(ring, [cookie |-> prog[t].cookie, owner |-> t])
  /\ Goto(t, "submit", prog[t].cookie)
  /\ UNCHANGED <<seen, hits, lost>>

\* bpf_ringbuf_reserve finds room.
Reserve(t) ==
  /\ prog[t].at = "reserve"
  /\ Len(ring) < RingCap
  /\ ring' = Append(ring, [cookie |-> prog[t].cookie, owner |-> t])
  /\ Goto(t, "submit", prog[t].cookie)
  /\ UNCHANGED <<seen, hits, lost>>

\* bpf_ringbuf_reserve returns NULL: the program returns, and the mark stays.
ReserveFail(t) ==
  /\ prog[t].at = "reserve"
  /\ Len(ring) >= RingCap
  /\ lost' = lost \cup {prog[t].cookie}
  /\ Goto(t, "user", ZeroCookie)
  /\ UNCHANGED <<seen, ring, hits>>

\* bpf_ringbuf_submit clears the busy bit of the record t reserved.
Submit(t) ==
  /\ prog[t].at = "submit"
  /\ ring' = [i \in DOMAIN ring |->
                IF ring[i].owner = t THEN [ring[i] EXCEPT !.owner = NoThread]
                                     ELSE ring[i]]
  /\ Goto(t, "user", ZeroCookie)
  /\ UNCHANGED <<seen, hits, lost>>

\* The rest of a run of the program, once the function has been entered.
Continue(t) == MarkSeen(t) \/ Reserve(t) \/ ReserveFail(t) \/ Submit(t)

Probe == \E t \in Threads : Continue(t) \/ \E c \in Cookies : Enter(t, c)

----------------------------------------------------------------------------
Program == [at : {"user", "mark", "reserve", "submit"},
            cookie : Cookies \cup {ZeroCookie}]

ProbeTypeOK ==
  /\ attached \subseteq Cookies
  /\ prog \in [Threads -> Program]
  /\ \A t \in Threads : prog[t].at # "user" => prog[t].cookie \in Cookies
  /\ seen \subseteq Cookies
  /\ ring \in Seq(Record)
  /\ Len(ring) <= RingCap
  /\ hits \subseteq Cookies
  /\ lost \subseteq Cookies

\* The cookies a program run still holds, and those in the ring.
HeldByProgram == {prog[t].cookie : t \in {u \in Threads : prog[u].at # "user"}}
InRing == {record.cookie : record \in Range(ring)}
=============================================================================
