------------------------ MODULE StepEstimatorProofs ------------------------
(***************************************************************************)
(* The messages between a worker and its child, what the fits rest on, and *)
(* what the launch pass and admission leave in the scheduler and the       *)
(* buffer, for every set of deployments, faults and configurations, and    *)
(* every number of steps, cycles and launches.                             *)
(***************************************************************************)
EXTENDS StepEstimator, WellFoundedInduction, FiniteSetTheorems, SequenceTheorems,
        TLAPS

Stages == Waiting \cup {"device", "load", "accumulator", "lora", "up", "failed", "gone"}
ChildPcs == {"none", "boot", "recv", "build", "compute", "tail", "dead"}
Commands == {"share_weights", "share_activations", "share_lora_buffers",
             "hash_activations", "set_corpus_meta", "process_activations"}

\* The event that answers a command, by whatever way it is answered.
Reply(cmd) == CASE cmd = "process_activations" -> "done"
                [] cmd = "set_corpus_meta"     -> "silence"
                [] OTHER                       -> Answers[cmd]

\* The event a worker in stage w, with the backward's answer due or not, reads
\* from the pipe, or nothing.
Expected(w, d) == CASE w = "ready"                -> "ready"
                    [] w \in DOMAIN Answers       -> Answers[w]
                    [] w = "up" /\ d              -> "done"
                    [] OTHER                      -> "nothing"

\* Where a child stands when it will send an event by itself.
Working == {"boot", "compute", "tail"}

IsSeq(t) == t \in Seq({t[i] : i \in DOMAIN t})

\* No command in the pipe q is answered; one is, with event e.
Silent(q) == \A i \in DOMAIN q : q[i] = "set_corpus_meta"
OnlyFor(q, e) ==
    \A i \in DOMAIN q : q[i] # "set_corpus_meta" =>
        /\ Reply(q[i]) = e
        /\ \A j \in DOMAIN q : q[j] # "set_corpus_meta" => j = i

\* What is on its way to a worker in stage w, in the child, the pipe to it and
\* the pipe from it, is one event at most: the one the worker expects.
OneAnswer(w, c, q, a, d, v) ==
    /\ w = "device" <=> c = "none"
    /\ w = "device" => q = <<>> /\ a = <<>>
    /\ d => w = "up" /\ v
    /\ a # <<>> =>
          /\ Len(a) = 1 /\ Head(a) = Expected(w, d) /\ Head(a) # "nothing"
          /\ c \notin Working /\ (c # "dead" => Silent(q))
    /\ c = "boot" => w = "ready"
    /\ c \in {"compute", "tail"} => w = "up" /\ d
    /\ c \in Working => Silent(q)
    /\ c # "dead" => OnlyFor(q, Expected(w, d))

TalkType ==
    /\ worker \in [Ranks -> Stages] /\ child \in [Ranks -> ChildPcs]
    /\ due \in [Ranks -> BOOLEAN] /\ verified \in [Ranks -> BOOLEAN]
    /\ requests = [r \in Ranks |-> requests[r]]
    /\ answers = [r \in Ranks |-> answers[r]]
    /\ \A r \in Ranks :
          /\ IsSeq(requests[r]) /\ IsSeq(answers[r])
          /\ \A i \in DOMAIN requests[r] : requests[r][i] \in Commands

Talk(r) == OneAnswer(worker[r], child[r], requests[r], answers[r], due[r], verified[r])

TalkInv == TalkType /\ \A r \in Ranks : Here(r) => Talk(r)

\* A sample of the tracker whose step had company was stamped so, and counts
\* finetuning tokens with the tokens of its prefill.
Honest(s) ==
    /\ s.hot => s.bwd
    /\ s.t_ft \in {0, 1} /\ s.t_in \in s.t_ft .. 2

HonestAll(t) == IsSeq(t) /\ \A i \in DOMAIN t : Honest(t[i])

\* So is every sample that the runner has timed.
Stamped(t) == IsSeq(t) /\ \A i \in DOMAIN t : t[i].hot => t[i].feats.bwd

\* The child works beside the engine's steps only while the server serves, and
\* a step it works beside is stamped.
CompanyInv ==
    /\ ~setup.steps => stage = "setup"
    /\ setup.steps /\ stage # "serving" => ~Pending
    /\ stage = "setup" => step = NoStep
    /\ step # NoStep /\ Pending => step.feats.bwd

\* The samples, from the runner by way of the tracker to the disk and back.
SamplesInv ==
    /\ options \in Options
    /\ Stamped(ring) /\ Stamped(completed) /\ HonestAll(tracker)
    /\ dirty \subseteq {"decode_bwd"}
    /\ file # NoFile => HonestAll(file.tracker) /\ file.dirty \subseteq {"decode_bwd"}

FitInv == CompanyInv /\ SamplesInv

-----------------------------------------------------------------------------
(***************************************************************************)
(* Queues, whatever they hold.                                             *)
(***************************************************************************)
\* The first of a sequence's elements is the one at its head.
LEMMA IsSeqFacts ==
    ASSUME NEW t, IsSeq(t)
    PROVE  /\ Len(t) \in Nat
           /\ DOMAIN t = 1 .. Len(t)
           /\ t # <<>> <=> Len(t) > 0
           /\ t # <<>> => Head(t) = t[1]
  BY DEF IsSeq

\* What is appended comes last, and moves no other.
LEMMA AppendFacts ==
    ASSUME NEW t, IsSeq(t), NEW e
    PROVE  LET a == Append(t, e)
           IN  /\ IsSeq(a) /\ Len(a) = Len(t) + 1 /\ a[Len(t) + 1] = e
               /\ \A j \in 1 .. Len(t) : a[j] = t[j]
  <1> DEFINE T == {t[i] : i \in DOMAIN t} \union {e}
             a == Append(t, e)
  <1>1. t \in Seq(T) /\ e \in T
    BY DEF IsSeq
  <1>2. /\ a \in Seq(T) /\ Len(a) = Len(t) + 1 /\ a[Len(t) + 1] = e
        /\ \A j \in 1 .. Len(t) : a[j] = t[j]
    BY <1>1, AppendProperties
  <1>3. IsSeq(a)
    <2> HIDE DEF a
    <2> QED BY <1>2 DEF IsSeq
  <1> QED BY <1>2, <1>3

\* What is left when the one at the head is done.
LEMMA TailFacts ==
    ASSUME NEW t, IsSeq(t), t # <<>>
    PROVE  /\ IsSeq(Tail(t)) /\ Len(Tail(t)) = Len(t) - 1
           /\ \A j \in 1 .. Len(t) - 1 : Tail(t)[j] = t[j + 1]
  <1> DEFINE T == {t[i] : i \in DOMAIN t}
             a == Tail(t)
  <1>1. t \in Seq(T)
    BY DEF IsSeq
  <1>2. /\ a \in Seq(T) /\ Len(a) = Len(t) - 1
        /\ \A j \in 1 .. Len(t) - 1 : a[j] = t[j + 1]
    BY <1>1, HeadTailProperties
  <1>3. IsSeq(a)
    <2> HIDE DEF a
    <2> QED BY <1>2 DEF IsSeq
  <1> QED BY <1>2, <1>3


\* Short queues.
LEMMA OneFacts ==
    /\ IsSeq(<<>>) /\ Len(<<>>) = 0
    /\ \A e : IsSeq(<<e>>) /\ Len(<<e>>) = 1 /\ <<e>>[1] = e
  BY DEF IsSeq

\* A queue behind another one.
LEMMA ConcatFacts ==
    ASSUME NEW s, IsSeq(s), NEW t, IsSeq(t)
    PROVE  LET c == s \o t
           IN  /\ IsSeq(c) /\ Len(c) = Len(s) + Len(t)
               /\ \A j \in 1 .. Len(s) : c[j] = s[j]
               /\ \A j \in 1 .. Len(t) : c[Len(s) + j] = t[j]
  <1> DEFINE S == {s[i] : i \in DOMAIN s}
             T == {t[i] : i \in DOMAIN t}
             c == s \o t
  <1>1. s \in Seq(S \union T) /\ t \in Seq(S \union T)
    <2>1. s \in Seq(S) /\ t \in Seq(T)
      BY DEF IsSeq
    <2> HIDE DEF S, T
    <2> QED BY <2>1, SeqMonotonic
  <1>2. Len(s) \in Nat /\ Len(t) \in Nat
    BY <1>1, LenProperties
  <1>3. /\ c \in Seq(S \union T) /\ Len(c) = Len(s) + Len(t)
        /\ \A j \in 1 .. Len(s) + Len(t) :
              c[j] = IF j <= Len(s) THEN s[j] ELSE t[j - Len(s)]
    <2> HIDE DEF S, T
    <2> QED BY <1>1, ConcatProperties
  <1>4. IsSeq(c)
    <2> HIDE DEF c
    <2> QED BY <1>3, LenProperties DEF IsSeq
  <1>5. /\ \A j \in 1 .. Len(s) : c[j] = s[j]
        /\ \A j \in 1 .. Len(t) : c[Len(s) + j] = t[j]
    <2> HIDE DEF c
    <2> QED BY <1>2, <1>3
  <1> QED BY <1>3, <1>4, <1>5

\* Nothing is left behind a single element.
LEMMA TailOfOne ==
    ASSUME NEW t, IsSeq(t), t # <<>>, Len(t) = 1
    PROVE  Tail(t) = <<>>
  <1> DEFINE u == Tail(t)
  <1>1. IsSeq(u) /\ Len(u) = Len(t) - 1
    BY TailFacts
  <1> HIDE DEF u
  <1>2. u = <<>>
    BY <1>1, IsSeqFacts
  <1> QED BY <1>2 DEF u


-----------------------------------------------------------------------------
(***************************************************************************)
(* The pipe to the child.                                                  *)
(***************************************************************************)
\* A command that is read leaves its answer to come, if it has one.
LEMMA ReadCommand ==
    ASSUME NEW q, IsSeq(q), q # <<>>
    PROVE  /\ IsSeq(Tail(q))
           /\ Head(q) = q[1] /\ 1 \in DOMAIN q
           /\ \A i \in DOMAIN Tail(q) : i + 1 \in DOMAIN q /\ Tail(q)[i] = q[i + 1]
           /\ Silent(q) => Head(q) = "set_corpus_meta" /\ Silent(Tail(q))
           /\ \A e : OnlyFor(q, e) =>
                 /\ OnlyFor(Tail(q), e)
                 /\ Head(q) # "set_corpus_meta" => Reply(Head(q)) = e /\ Silent(Tail(q))
  <1> DEFINE u == Tail(q)
  <1>1. /\ IsSeq(u) /\ Len(u) = Len(q) - 1
        /\ \A j \in 1 .. Len(q) - 1 : u[j] = q[j + 1]
    BY TailFacts
  <1>2. /\ Len(q) \in Nat /\ Len(q) > 0 /\ Head(q) = q[1] /\ DOMAIN q = 1 .. Len(q)
    BY IsSeqFacts
  <1> HIDE DEF u
  <1>3. DOMAIN u = 1 .. Len(q) - 1
    BY <1>1, IsSeqFacts
  <1>4. /\ 1 \in DOMAIN q
        /\ \A i \in DOMAIN u : i + 1 \in DOMAIN q /\ u[i] = q[i + 1] /\ i \in Nat \ {0}
    BY <1>1, <1>2, <1>3
  <1>5. Silent(q) => Head(q) = "set_corpus_meta" /\ Silent(u)
    BY <1>2, <1>4 DEF Silent
  <1>6. ASSUME NEW e, OnlyFor(q, e)
        PROVE  /\ OnlyFor(u, e)
               /\ Head(q) # "set_corpus_meta" => Reply(Head(q)) = e /\ Silent(u)
    <2>1. ASSUME NEW i \in DOMAIN u, u[i] # "set_corpus_meta"
          PROVE  /\ Reply(u[i]) = e
                 /\ \A j \in DOMAIN u : u[j] # "set_corpus_meta" => j = i
      <3>1. /\ i + 1 \in DOMAIN q /\ q[i + 1] = u[i] /\ i \in Nat
        BY <1>4
      <3>2. Reply(q[i + 1]) = e
        BY <1>6, <2>1, <3>1 DEF OnlyFor
      <3>3. ASSUME NEW j \in DOMAIN u, u[j] # "set_corpus_meta" PROVE j = i
        <4>1. j + 1 \in DOMAIN q /\ q[j + 1] = u[j] /\ j \in Nat
          BY <1>4
        <4>2. j + 1 = i + 1
          BY <1>6, <2>1, <3>1, <3>3, <4>1 DEF OnlyFor
        <4> QED BY <3>1, <4>1, <4>2
      <3> QED BY <3>1, <3>2, <3>3
    <2>2. ASSUME Head(q) # "set_corpus_meta" PROVE Reply(Head(q)) = e /\ Silent(u)
      <3>1. Reply(q[1]) = e
        BY <1>2, <1>4, <1>6, <2>2 DEF OnlyFor
      <3>2. ASSUME NEW i \in DOMAIN u PROVE u[i] = "set_corpus_meta"
        <4>1. i + 1 \in DOMAIN q /\ u[i] = q[i + 1] /\ i \in Nat \ {0}
          BY <1>4
        <4>2. q[i + 1] # "set_corpus_meta" => i + 1 = 1
          BY <1>2, <1>4, <1>6, <2>2, <4>1 DEF OnlyFor
        <4> QED BY <4>1, <4>2
      <3> QED BY <1>2, <3>1, <3>2 DEF Silent
    <2> QED BY <2>1, <2>2 DEF OnlyFor
  <1> QED BY <1>1, <1>2, <1>4, <1>5, <1>6 DEF u

\* A command behind others that nobody answers is the only one answered.
LEMMA SendCommand ==
    ASSUME NEW q, IsSeq(q), NEW cmd \in Commands
    PROVE  /\ IsSeq(Append(q, cmd))
           /\ (\A i \in DOMAIN q : q[i] \in Commands)
                 => \A i \in DOMAIN Append(q, cmd) : Append(q, cmd)[i] \in Commands
           /\ Silent(q) => OnlyFor(Append(q, cmd), Reply(cmd))
  <1> DEFINE u == Append(q, cmd)
  <1>1. /\ IsSeq(u) /\ Len(u) = Len(q) + 1 /\ u[Len(q) + 1] = cmd
        /\ \A j \in 1 .. Len(q) : u[j] = q[j]
    BY AppendFacts
  <1>2. Len(q) \in Nat /\ DOMAIN q = 1 .. Len(q)
    BY IsSeqFacts
  <1> HIDE DEF u
  <1>3. DOMAIN u = 1 .. Len(q) + 1
    BY <1>1, IsSeqFacts
  <1>4. \A i \in DOMAIN u :
           \/ i \in DOMAIN q /\ u[i] = q[i]
           \/ i = Len(q) + 1 /\ u[i] = cmd
    BY <1>1, <1>2, <1>3
  <1>5. Silent(q) => OnlyFor(u, Reply(cmd))
    BY <1>4 DEF Silent, OnlyFor
  <1>6. (\A i \in DOMAIN q : q[i] \in Commands) => \A i \in DOMAIN u : u[i] \in Commands
    BY <1>4
  <1> QED BY <1>1, <1>5, <1>6 DEF u

\* What is sent behind a pipe.
LEMMA SendBehind ==
    ASSUME NEW q, IsSeq(q), NEW t, IsSeq(t)
    PROVE  /\ IsSeq(q \o t)
           /\ (\A i \in DOMAIN q : q[i] \in Commands) /\ (\A i \in DOMAIN t : t[i] \in Commands)
                 => \A i \in DOMAIN (q \o t) : (q \o t)[i] \in Commands
           /\ Silent(q) /\ Silent(t) => Silent(q \o t)
           /\ \A e : OnlyFor(q, e) /\ Silent(t) => OnlyFor(q \o t, e)
           /\ \A e : Silent(q) /\ OnlyFor(t, e) => OnlyFor(q \o t, e)
  <1> DEFINE u == q \o t
  <1>1. /\ IsSeq(u) /\ Len(u) = Len(q) + Len(t)
        /\ \A j \in 1 .. Len(q) : u[j] = q[j]
        /\ \A j \in 1 .. Len(t) : u[Len(q) + j] = t[j]
    BY ConcatFacts
  <1>2. /\ Len(q) \in Nat /\ DOMAIN q = 1 .. Len(q)
        /\ Len(t) \in Nat /\ DOMAIN t = 1 .. Len(t)
    BY IsSeqFacts
  <1> HIDE DEF u
  <1>3. DOMAIN u = 1 .. Len(q) + Len(t)
    BY <1>1, IsSeqFacts
  <1>4. ASSUME NEW i \in DOMAIN u
        PROVE  \/ i \in DOMAIN q /\ u[i] = q[i]
               \/ i - Len(q) \in DOMAIN t /\ u[i] = t[i - Len(q)] /\ i \notin DOMAIN q
    <2>1. i \in Int /\ (i \in 1 .. Len(q) \/ i - Len(q) \in 1 .. Len(t))
      BY <1>2, <1>3
    <2>2. CASE i \in 1 .. Len(q)
      BY <1>1, <1>2, <2>2
    <2>3. CASE i - Len(q) \in 1 .. Len(t)
      <3>1. Len(q) + (i - Len(q)) = i
        BY <1>2, <2>1
      <3>2. i \notin 1 .. Len(q)
        BY <1>2, <2>1, <2>3
      <3> QED BY <1>1, <1>2, <2>3, <3>1, <3>2
    <2> QED BY <2>1, <2>2, <2>3
  <1>5. Silent(q) /\ Silent(t) => Silent(u)
    BY <1>4 DEF Silent
  <1>6. \A e : OnlyFor(q, e) /\ Silent(t) => OnlyFor(u, e)
    <2> SUFFICES ASSUME NEW e, OnlyFor(q, e), Silent(t) PROVE OnlyFor(u, e)
      OBVIOUS
    <2>1. \A i \in DOMAIN u : u[i] # "set_corpus_meta" => i \in DOMAIN q /\ u[i] = q[i]
      BY <1>4 DEF Silent
    <2> QED BY <2>1 DEF OnlyFor
  <1>7. \A e : Silent(q) /\ OnlyFor(t, e) => OnlyFor(u, e)
    <2> SUFFICES ASSUME NEW e, Silent(q), OnlyFor(t, e) PROVE OnlyFor(u, e)
      OBVIOUS
    <2>1. \A i \in DOMAIN u : u[i] # "set_corpus_meta"
             => i - Len(q) \in DOMAIN t /\ u[i] = t[i - Len(q)] /\ i \in Int
      BY <1>3, <1>4 DEF Silent
    <2>2. ASSUME NEW i \in DOMAIN u, u[i] # "set_corpus_meta",
                 NEW j \in DOMAIN u, u[j] # "set_corpus_meta"
          PROVE  j = i
      <3>1. j - Len(q) = i - Len(q)
        BY <2>1, <2>2 DEF OnlyFor
      <3> QED BY <1>2, <2>1, <2>2, <3>1
    <2> QED BY <2>1, <2>2 DEF OnlyFor
  <1>8. (\A i \in DOMAIN q : q[i] \in Commands) /\ (\A i \in DOMAIN t : t[i] \in Commands)
           => \A i \in DOMAIN u : u[i] \in Commands
    BY <1>4
  <1> QED BY <1>1, <1>5, <1>6, <1>7, <1>8 DEF u

\* The commands without an answer, and the work signal alone.
LEMMA ShortPipes ==
    /\ IsSeq(<<>>) /\ Silent(<<>>) /\ (\A e : OnlyFor(<<>>, e))
    /\ \A cmd \in Commands :
          /\ IsSeq(<<cmd>>) /\ OnlyFor(<<cmd>>, Reply(cmd))
          /\ \A i \in DOMAIN <<cmd>> : <<cmd>>[i] \in Commands
    /\ Silent(<<"set_corpus_meta">>)
  BY OneFacts DEF Silent, OnlyFor

\* No command is answered with anything a worker could take for nothing.
LEMMA RepliesAreEvents ==
    ASSUME NEW q, \A i \in DOMAIN q : q[i] \in Commands
    PROVE  OnlyFor(q, "nothing") => Silent(q)
  BY DEF OnlyFor, Silent, Commands, Reply, Answers

-----------------------------------------------------------------------------
(***************************************************************************)
(* A step of one rank.                                                     *)
(***************************************************************************)
\* Every rank's part of the invariant is its own: a step of rank p keeps it if
\* it keeps p's part.
LEMMA OneRank ==
    ASSUME TalkInv, setup' = setup, NEW p \in Ranks,
           worker' = [worker EXCEPT ![p] = worker'[p]], worker'[p] \in Stages,
           child' = [child EXCEPT ![p] = child'[p]], child'[p] \in ChildPcs,
           requests' = [requests EXCEPT ![p] = requests'[p]],
           IsSeq(requests'[p]),
           \A i \in DOMAIN requests'[p] : requests'[p][i] \in Commands,
           answers' = [answers EXCEPT ![p] = answers'[p]], IsSeq(answers'[p]),
           due' = [due EXCEPT ![p] = due'[p]], due'[p] \in BOOLEAN,
           verified' = [verified EXCEPT ![p] = verified'[p]], verified'[p] \in BOOLEAN,
           Here(p)' => OneAnswer(worker'[p], child'[p], requests'[p], answers'[p],
                                 due'[p], verified'[p])
    PROVE  TalkInv'
  <1>1. TalkType /\ Ranks' = Ranks
    BY DEF TalkInv, Ranks
  <1>2. /\ worker' \in [Ranks -> Stages] /\ child' \in [Ranks -> ChildPcs]
        /\ due' \in [Ranks -> BOOLEAN] /\ verified' \in [Ranks -> BOOLEAN]
    BY <1>1 DEF TalkType
  <1>3. /\ requests' = [r \in Ranks |-> requests'[r]]
        /\ answers' = [r \in Ranks |-> answers'[r]]
    BY <1>1 DEF TalkType
  <1>4. ASSUME NEW r \in Ranks, r # p
        PROVE  /\ worker'[r] = worker[r] /\ child'[r] = child[r]
               /\ requests'[r] = requests[r] /\ answers'[r] = answers[r]
               /\ due'[r] = due[r] /\ verified'[r] = verified[r]
    BY <1>1, <1>4 DEF TalkType
  <1>5. \A r \in Ranks :
          /\ IsSeq(requests'[r]) /\ IsSeq(answers'[r])
          /\ \A i \in DOMAIN requests'[r] : requests'[r][i] \in Commands
    BY <1>1, <1>4 DEF TalkType
  <1>6. TalkType'
    BY <1>1, <1>2, <1>3, <1>5 DEF TalkType, IsSeq
  <1>7. ASSUME NEW r \in Ranks, Here(r)' PROVE Talk(r)'
    <2>1. CASE r = p
      BY <1>7, <2>1 DEF Talk
    <2>2. CASE r # p
      <3>1. Here(r)
        BY <1>4, <1>7, <2>2 DEF Here
      <3>2. Talk(r)
        BY <3>1 DEF TalkInv
      <3> QED BY <1>4, <2>2, <3>2 DEF Talk
    <2> QED BY <2>1, <2>2
  <1> QED BY <1>1, <1>6, <1>7 DEF TalkInv

\* What a step leaves alone.
LEMMA Same ==
    ASSUME TalkType, NEW p \in Ranks
    PROVE  /\ worker = [worker EXCEPT ![p] = worker[p]] /\ worker[p] \in Stages
           /\ child = [child EXCEPT ![p] = child[p]] /\ child[p] \in ChildPcs
           /\ requests = [requests EXCEPT ![p] = requests[p]] /\ IsSeq(requests[p])
           /\ \A i \in DOMAIN requests[p] : requests[p][i] \in Commands
           /\ answers = [answers EXCEPT ![p] = answers[p]] /\ IsSeq(answers[p])
           /\ due = [due EXCEPT ![p] = due[p]] /\ due[p] \in BOOLEAN
           /\ verified = [verified EXCEPT ![p] = verified[p]] /\ verified[p] \in BOOLEAN
  BY DEF TalkType

\* What a step assigns.
LEMMA Assigned ==
    ASSUME TalkType, NEW p \in Ranks, NEW x
    PROVE  /\ [worker EXCEPT ![p] = x][p] = x
           /\ [child EXCEPT ![p] = x][p] = x
           /\ [requests EXCEPT ![p] = x][p] = x
           /\ [answers EXCEPT ![p] = x][p] = x
           /\ [due EXCEPT ![p] = x][p] = x
           /\ [verified EXCEPT ![p] = x][p] = x
  BY DEF TalkType

\* A worker or a child that goes away leaves nothing that could be mistaken.
LEMMA GoingAwayKeepsTalk ==
    ASSUME TalkInv, setup' = setup, NEW p \in Ranks,
           UNCHANGED <<requests, answers, due, verified>>,
           \/ worker' = [worker EXCEPT ![p] = "failed"] /\ child' = child
           \/ worker' = [worker EXCEPT ![p] = "gone"] /\ child' = child
           \/ child' = [child EXCEPT ![p] = "dead"] /\ worker' = worker /\ child[p] # "none"
    PROVE  TalkInv'
  <1>1. TalkType
    BY DEF TalkInv
  <1>2. CASE \/ worker' = [worker EXCEPT ![p] = "failed"] /\ child' = child
             \/ worker' = [worker EXCEPT ![p] = "gone"] /\ child' = child
    <2>1. worker'[p] \in {"failed", "gone"} /\ worker'[p] \in Stages /\ ~Here(p)'
      BY <1>1, <1>2, Assigned DEF Stages, Here
    <2>2. worker' = [worker EXCEPT ![p] = worker'[p]]
      BY <1>2, <2>1, <1>1, Assigned
    <2> QED BY <1>1, <1>2, <2>1, <2>2, Same, OneRank
  <1>3. CASE child' = [child EXCEPT ![p] = "dead"] /\ worker' = worker /\ child[p] # "none"
    <2>1. child'[p] = "dead" /\ "dead" \in ChildPcs
      BY <1>1, <1>3, Assigned DEF ChildPcs
    <2>2. ASSUME Here(p)'
          PROVE OneAnswer(worker[p], "dead", requests[p], answers[p], due[p], verified[p])
      <3>1. OneAnswer(worker[p], child[p], requests[p], answers[p], due[p], verified[p])
        BY <1>3, <2>2 DEF TalkInv, Talk, Here
      <3> QED BY <1>3, <3>1 DEF OneAnswer, Working
    <2>3. child' = [child EXCEPT ![p] = child'[p]]
      BY <1>3, <2>1
    <2> QED BY <1>1, <1>3, <2>1, <2>2, <2>3, Same, OneRank
  <1> QED BY <1>2, <1>3

-----------------------------------------------------------------------------
(***************************************************************************)
(* The worker's steps.                                                     *)
(***************************************************************************)
\* The worker starts its child and waits for the hand-shake.
LEMMA StartKeepsTalk ==
    ASSUME TalkInv, NEW p \in Ranks, StartWorker(p)
    PROVE  TalkInv'
  <1>1. TalkType
    BY DEF TalkInv
  <1>2. /\ worker[p] = "device" /\ setup' = setup
        /\ worker' = [worker EXCEPT ![p] = "ready"]
        /\ child' = [child EXCEPT ![p] = "boot"]
        /\ requests' = requests /\ answers' = answers
        /\ due' = due /\ verified' = verified
    BY DEF StartWorker, Start, pipe_vars, cycle_vars
  <1>3. /\ worker'[p] = "ready" /\ "ready" \in Stages
        /\ child'[p] = "boot" /\ "boot" \in ChildPcs
    BY <1>1, <1>2, Assigned DEF Stages, Waiting, ChildPcs
  <1>4. OneAnswer("device", child[p], requests[p], answers[p], due[p], verified[p])
    BY <1>2 DEF TalkInv, Talk, Here
  <1>5. OneAnswer("ready", "boot", requests[p], answers[p], due[p], verified[p])
    BY <1>4, ShortPipes DEF OneAnswer, Working
  <1> QED BY <1>1, <1>2, <1>3, <1>5, Same, OneRank

\* A worker that expects nothing sends a command and waits for its answer.
LEMMA SendKeepsTalk ==
    ASSUME TalkInv, setup' = setup, NEW p \in Ranks, NEW cmd \in DOMAIN Answers,
           Here(p), worker[p] \notin Waiting, worker[p] # "device", ~due[p],
           worker' = [worker EXCEPT ![p] = cmd], Send(p, cmd),
           UNCHANGED <<child, answers, due>>,
           \/ verified' = verified
           \/ verified' = [verified EXCEPT ![p] = TRUE]
    PROVE  TalkInv'
  <1>1. TalkType
    BY DEF TalkInv
  <1>2. requests' = [requests EXCEPT ![p] = Append(requests[p], cmd)]
    BY DEF Send
  <1>3. /\ worker'[p] = cmd /\ cmd \in Stages /\ cmd \in Commands
        /\ requests'[p] = Append(requests[p], cmd)
    BY <1>1, <1>2, Assigned DEF Stages, Waiting, Answers, Commands
  <1>4. /\ IsSeq(requests'[p])
        /\ \A i \in DOMAIN requests'[p] : requests'[p][i] \in Commands
        /\ Silent(requests[p]) => OnlyFor(requests'[p], Reply(cmd))
    BY <1>1, <1>3, SendCommand, Same
  <1>5. OneAnswer(worker[p], child[p], requests[p], answers[p], due[p], verified[p])
    BY DEF TalkInv, Talk
  <1>6. /\ Expected(worker[p], due[p]) = "nothing"
        /\ worker[p] # "up" \/ ~due[p]
        /\ worker[p] # "ready"
    BY DEF Expected, Waiting, Answers
  <1>7. Reply(cmd) = Answers[cmd] /\ Expected(cmd, due[p]) = Answers[cmd]
    BY DEF Reply, Expected, Answers
  <1>8. answers[p] = <<>>
    BY <1>5, <1>6 DEF OneAnswer
  <1>9. child[p] # "dead" => Silent(requests[p])
    BY <1>1, <1>5, <1>6, RepliesAreEvents, Same DEF OneAnswer
  <1>10. OneAnswer(cmd, child[p], requests'[p], answers[p], due[p], verified'[p])
    BY <1>4, <1>5, <1>6, <1>7, <1>8, <1>9 DEF OneAnswer, Working, Answers
  <1>11. /\ worker' = [worker EXCEPT ![p] = worker'[p]]
         /\ requests' = [requests EXCEPT ![p] = requests'[p]]
         /\ verified' = [verified EXCEPT ![p] = verified'[p]] /\ verified'[p] \in BOOLEAN
    <2>1. /\ worker' = [worker EXCEPT ![p] = worker'[p]]
          /\ requests' = [requests EXCEPT ![p] = requests'[p]]
      BY <1>2, <1>3
    <2>2. CASE verified' = verified
      BY <1>1, <2>1, <2>2, Same
    <2>3. CASE verified' = [verified EXCEPT ![p] = TRUE]
      <3>1. verified'[p] = TRUE
        BY <1>1, <2>3, Assigned
      <3> QED BY <2>1, <2>3, <3>1
    <2> QED BY <2>2, <2>3
  <1> QED BY <1>1, <1>3, <1>4, <1>10, <1>11, Same, OneRank

\* A worker that expects nothing, with empty pipes.
LEMMA AtRest ==
    ASSUME NEW w \in {"load", "accumulator", "lora", "up"}, NEW c, c \notin Working,
           c # "none", NEW q, c # "dead" => Silent(q), NEW d, ~d, NEW v
    PROVE  OneAnswer(w, c, q, <<>>, d, v)
  <1>1. c # "dead" => OnlyFor(q, Expected(w, d))
    BY DEF OnlyFor, Silent
  <1> QED BY <1>1 DEF OneAnswer, Working

\* What the worker waits for is there, and is the only event there is.
LEMMA AnswerKeepsTalk ==
    ASSUME TalkInv, NEW p \in Ranks, TakeAnswer(p)
    PROVE  TalkInv'
  <1>1. TalkType
    BY DEF TalkInv
  <1> DEFINE w == NextStage[worker[p]]
  <1>2. /\ worker[p] \in Waiting /\ answers[p] # <<>> /\ setup' = setup
        /\ worker' = [worker EXCEPT ![p] = w]
        /\ answers' = [answers EXCEPT ![p] = Tail(answers[p])]
        /\ requests' = requests /\ child' = child
        /\ due' = due /\ verified' = verified
    BY DEF TakeAnswer, cycle_vars
  <1>3. w \in {"load", "accumulator", "lora", "up"}
    BY <1>2 DEF Waiting, NextStage
  <1> HIDE DEF w
  <1>4. /\ worker'[p] = w /\ w \in Stages
        /\ answers'[p] = Tail(answers[p]) /\ IsSeq(answers'[p])
    <2>1. worker'[p] = w /\ answers'[p] = Tail(answers[p])
      BY <1>1, <1>2, Assigned
    <2>2. IsSeq(answers[p])
      BY <1>1, Same
    <2>3. IsSeq(Tail(answers[p]))
      BY <1>2, <2>2, TailFacts
    <2> QED BY <1>3, <2>1, <2>3 DEF Stages
  <1>5. OneAnswer(worker[p], child[p], requests[p], answers[p], due[p], verified[p])
    BY <1>2 DEF TalkInv, Talk, Here, Waiting
  <1>6. /\ ~due[p] /\ worker[p] # "device" /\ worker[p] # "up"
        /\ Len(answers[p]) = 1 /\ child[p] \notin Working /\ child[p] # "none"
        /\ child[p] # "dead" => Silent(requests[p])
    BY <1>2, <1>5 DEF OneAnswer, Waiting
  <1>7. Tail(answers[p]) = <<>>
    <2>1. IsSeq(answers[p])
      BY <1>1, Same
    <2> QED BY <1>2, <1>6, <2>1, TailOfOne
  <1>8. OneAnswer(w, child[p], requests[p], <<>>, due[p], verified[p])
    BY <1>3, <1>6, AtRest
  <1>9. /\ worker' = [worker EXCEPT ![p] = worker'[p]] /\ worker'[p] \in Stages
        /\ answers' = [answers EXCEPT ![p] = answers'[p]] /\ IsSeq(answers'[p])
        /\ child'[p] = child[p] /\ requests'[p] = requests[p]
        /\ due'[p] = due[p] /\ verified'[p] = verified[p]
        /\ worker'[p] = w /\ answers'[p] = <<>>
    BY <1>2, <1>4, <1>7
  <1>10. OneAnswer(worker'[p], child'[p], requests'[p], answers'[p], due'[p], verified'[p])
    BY <1>8, <1>9
  <1> QED BY <1>1, <1>2, <1>9, <1>10, Same, OneRank

\* The worker has nothing to share, or cannot.
LEMMA SkipKeepsTalk ==
    ASSUME TalkInv, setup' = setup, NEW p \in Ranks, worker[p] = "lora",
           worker' = [worker EXCEPT ![p] = "up"],
           UNCHANGED <<child, requests, answers, due, verified>>
    PROVE  TalkInv'
  <1>1. TalkType
    BY DEF TalkInv
  <1>2. OneAnswer("lora", child[p], requests[p], answers[p], due[p], verified[p])
    BY DEF TalkInv, Talk, Here
  <1>3. OneAnswer("up", child[p], requests[p], answers[p], due[p], verified[p])
    BY <1>2 DEF OneAnswer, Expected, Answers
  <1>4. worker'[p] = "up" /\ "up" \in Stages
    BY <1>1, Assigned DEF Stages
  <1>5. worker' = [worker EXCEPT ![p] = worker'[p]]
    BY <1>4
  <1> QED BY <1>1, <1>3, <1>4, <1>5, Same, OneRank

\* A step of one worker.
LEMMA WorkerKeepsTalk ==
    ASSUME TalkInv, NEW p \in Ranks, WorkerSteps(p) \/ HashActivations(p)
    PROVE  TalkInv'
  <1>1. TalkType
    BY DEF TalkInv
  <1>2. \A r \in Ranks : Here(r) => (due[r] => worker[r] = "up" /\ verified[r])
    BY DEF TalkInv, Talk, OneAnswer
  <1>3. CASE StartWorker(p)
    BY <1>3, StartKeepsTalk
  <1>4. CASE ShareWeights(p)
    <2>1. /\ worker[p] = "load" /\ setup' = setup /\ Send(p, "share_weights")
          /\ worker' = [worker EXCEPT ![p] = "share_weights"]
          /\ UNCHANGED <<child, answers, due, verified>>
      BY <1>4 DEF ShareWeights, cycle_vars
    <2>2. Here(p) /\ worker[p] \notin Waiting /\ ~due[p] /\ "share_weights" \in DOMAIN Answers
      BY <1>2, <2>1 DEF Here, Waiting, Answers
    <2> QED BY <2>1, <2>2, SendKeepsTalk
  <1>5. CASE ShareActivations(p)
    <2>1. /\ worker[p] = "accumulator" /\ setup' = setup /\ Send(p, "share_activations")
          /\ worker' = [worker EXCEPT ![p] = "share_activations"]
          /\ UNCHANGED <<child, answers, due, verified>>
      BY <1>5 DEF ShareActivations, cycle_vars
    <2>2. Here(p) /\ worker[p] \notin Waiting /\ ~due[p] /\ "share_activations" \in DOMAIN Answers
      BY <1>2, <2>1 DEF Here, Waiting, Answers
    <2> QED BY <2>1, <2>2, SendKeepsTalk
  <1>6. CASE ShareLora(p)
    <2>1. /\ worker[p] = "lora" /\ setup' = setup
          /\ UNCHANGED <<child, answers, due, verified>>
      BY <1>6 DEF ShareLora, cycle_vars
    <2>2. CASE /\ Send(p, "share_lora_buffers")
               /\ worker' = [worker EXCEPT ![p] = "share_lora_buffers"]
      <3>1. Here(p) /\ worker[p] \notin Waiting /\ ~due[p]
            /\ "share_lora_buffers" \in DOMAIN Answers
        BY <1>2, <2>1 DEF Here, Waiting, Answers
      <3> QED BY <2>1, <2>2, <3>1, SendKeepsTalk
    <2>3. CASE worker' = [worker EXCEPT ![p] = "up"] /\ requests' = requests
      BY <2>1, <2>3, SkipKeepsTalk
    <2> QED BY <1>6, <2>2, <2>3 DEF ShareLora
  <1>7. CASE TakeAnswer(p)
    BY <1>7, AnswerKeepsTalk
  <1>8. CASE PipeCloses(p) \/ TimesOut(p) \/ WorkerOrphaned(p)
    <2>1. /\ setup' = setup /\ UNCHANGED <<requests, answers, due, verified>>
          /\ child' = child
          /\ \/ worker' = [worker EXCEPT ![p] = "failed"]
             \/ worker' = [worker EXCEPT ![p] = "gone"]
      BY <1>8 DEF PipeCloses, TimesOut, WorkerOrphaned, Fails, pipe_vars, cycle_vars
    <2> QED BY <2>1, GoingAwayKeepsTalk
  <1>9. CASE HashActivations(p)
    <2>1. /\ worker[p] = "up" /\ ~verified[p] /\ setup' = setup
          /\ Send(p, "hash_activations")
          /\ worker' = [worker EXCEPT ![p] = "hash_activations"]
          /\ verified' = [verified EXCEPT ![p] = TRUE]
          /\ UNCHANGED <<child, answers, due>>
      BY <1>9 DEF HashActivations
    <2>2. Here(p) /\ worker[p] \notin Waiting /\ ~due[p]
          /\ "hash_activations" \in DOMAIN Answers
      BY <1>2, <2>1 DEF Here, Waiting, Answers
    <2> QED BY <2>1, <2>2, SendKeepsTalk
  <1> QED BY <1>3, <1>4, <1>5, <1>6, <1>7, <1>8, <1>9 DEF WorkerSteps

-----------------------------------------------------------------------------
(***************************************************************************)
(* The child's steps.                                                      *)
(***************************************************************************)
\* The only event there is, behind an empty pipe.
LEMMA OnlyAnswer ==
    ASSUME NEW a, IsSeq(a), Len(a) = 0, NEW e
    PROVE  LET b == Append(a, e)
           IN  IsSeq(b) /\ b # <<>> /\ Len(b) = 1 /\ Head(b) = e
  <1> DEFINE b == Append(a, e)
  <1>1. IsSeq(b) /\ Len(b) = Len(a) + 1 /\ b[Len(a) + 1] = e
    BY AppendFacts
  <1> HIDE DEF b
  <1>2. Len(b) = 1 /\ b[1] = e
    BY <1>1
  <1>3. b # <<>> /\ Head(b) = e
    BY <1>1, <1>2, IsSeqFacts
  <1> QED BY <1>1, <1>2, <1>3 DEF b

\* A child moves on, reads a command or not, and sends an event or not.
LEMMA ChildMoves ==
    ASSUME TalkInv, setup' = setup, NEW p \in Ranks, NEW c \in ChildPcs, NEW q, NEW a,
           worker' = worker, due' = due, verified' = verified,
           child' = [child EXCEPT ![p] = c],
           requests' = [requests EXCEPT ![p] = q],
           IsSeq(q), \A i \in DOMAIN q : q[i] \in Commands,
           answers' = [answers EXCEPT ![p] = a], IsSeq(a),
           OneAnswer(worker[p], child[p], requests[p], answers[p], due[p], verified[p])
              => OneAnswer(worker[p], c, q, a, due[p], verified[p])
    PROVE  TalkInv'
  <1>1. TalkType
    BY DEF TalkInv
  <1>2. child'[p] = c /\ requests'[p] = q /\ answers'[p] = a
    BY <1>1, Assigned
  <1>3. /\ child' = [child EXCEPT ![p] = child'[p]]
        /\ requests' = [requests EXCEPT ![p] = requests'[p]]
        /\ answers' = [answers EXCEPT ![p] = answers'[p]]
    BY <1>2
  <1>4. ASSUME Here(p)'
        PROVE  OneAnswer(worker'[p], child'[p], requests'[p], answers'[p],
                         due'[p], verified'[p])
    <2>1. OneAnswer(worker[p], child[p], requests[p], answers[p], due[p], verified[p])
      BY <1>4 DEF TalkInv, Talk, Here
    <2> QED BY <1>2, <2>1
  <1>5. /\ IsSeq(requests'[p]) /\ IsSeq(answers'[p]) /\ child'[p] \in ChildPcs
        /\ \A i \in DOMAIN requests'[p] : requests'[p][i] \in Commands
    BY <1>2
  <1>6. /\ worker' = [worker EXCEPT ![p] = worker'[p]] /\ worker'[p] \in Stages
        /\ due' = [due EXCEPT ![p] = due'[p]] /\ due'[p] \in BOOLEAN
        /\ verified' = [verified EXCEPT ![p] = verified'[p]] /\ verified'[p] \in BOOLEAN
    BY <1>1, Same
  <1> QED BY <1>3, <1>4, <1>5, <1>6, OneRank

\* The hand-shake, before the first command is sent.
LEMMA BootKeepsTalk ==
    ASSUME TalkInv, NEW p \in Ranks, Boot(p)
    PROVE  TalkInv'
  <1>1. TalkType
    BY DEF TalkInv
  <1>2. /\ child[p] = "boot" /\ setup' = setup
        /\ worker' = worker /\ requests' = requests /\ due' = due /\ verified' = verified
        /\ \/ child' = [child EXCEPT ![p] = "dead"] /\ answers' = answers
           \/ /\ child' = [child EXCEPT ![p] = "recv"]
              /\ answers' = [answers EXCEPT ![p] = Append(answers[p], "ready")]
    BY DEF Boot, Goes, Answer, cycle_vars
  <1>3. CASE child' = [child EXCEPT ![p] = "dead"] /\ answers' = answers
    BY <1>2, <1>3, GoingAwayKeepsTalk
  <1>4. CASE /\ child' = [child EXCEPT ![p] = "recv"]
             /\ answers' = [answers EXCEPT ![p] = Append(answers[p], "ready")]
    <2> DEFINE a == Append(answers[p], "ready")
    <2>1. IsSeq(answers[p]) /\ IsSeq(requests[p]) /\ "recv" \in ChildPcs
          /\ \A i \in DOMAIN requests[p] : requests[p][i] \in Commands
      BY <1>1, Same DEF ChildPcs
    <2>2. IsSeq(a)
      BY <2>1, AppendFacts
    <2>3. ASSUME OneAnswer(worker[p], child[p], requests[p], answers[p], due[p], verified[p])
          PROVE  OneAnswer(worker[p], "recv", requests[p], a, due[p], verified[p])
      <3>1. /\ answers[p] = <<>> /\ worker[p] = "ready" /\ Silent(requests[p]) /\ ~due[p]
        BY <1>2, <2>3 DEF OneAnswer, Working
      <3>2. a # <<>> /\ Len(a) = 1 /\ Head(a) = "ready"
        <4>1. Len(answers[p]) = 0
          BY <2>1, <3>1, IsSeqFacts
        <4> QED BY <2>1, <4>1, OnlyAnswer
      <3> HIDE DEF a
      <3>3. OnlyFor(requests[p], Expected("ready", due[p]))
        BY <3>1 DEF OnlyFor, Silent
      <3>4. Expected("ready", due[p]) = "ready"
        BY DEF Expected, Answers
      <3> QED BY <3>1, <3>2, <3>3, <3>4 DEF OneAnswer, Working
    <2> HIDE DEF a
    <2>4. answers' = [answers EXCEPT ![p] = a]
      BY <1>4 DEF a
    <2>5. requests' = [requests EXCEPT ![p] = requests[p]]
      BY <1>1, <1>2, Same
    <2> QED BY <1>2, <1>4, <2>1, <2>2, <2>3, <2>4, <2>5, ChildMoves
  <1> QED BY <1>2, <1>3, <1>4

\* The one command there is is answered, now or when its cycle has ended.
LEMMA CommandKeepsTalk ==
    ASSUME TalkInv, NEW p \in Ranks, HandleCommand(p) \/ HandleWork(p)
    PROVE  TalkInv'
  <1>1. TalkType
    BY DEF TalkInv
  <1> DEFINE cmd == Head(requests[p])
             q == Tail(requests[p])
             a == Append(answers[p], Reply(cmd))
  <1>2. /\ child[p] = "recv" /\ requests[p] # <<>> /\ setup' = setup
        /\ requests' = [requests EXCEPT ![p] = q]
        /\ worker' = worker /\ due' = due /\ verified' = verified
    BY DEF HandleCommand, HandleWork, cycle_vars
  <1>3. IsSeq(requests[p]) /\ IsSeq(answers[p])
        /\ \A i \in DOMAIN requests[p] : requests[p][i] \in Commands
    BY <1>1, Same
  <1>4. /\ IsSeq(q) /\ cmd \in Commands
        /\ \A i \in DOMAIN q : q[i] \in Commands
        /\ \A e : OnlyFor(requests[p], e) =>
              /\ OnlyFor(q, e)
              /\ cmd # "set_corpus_meta" => Reply(cmd) = e /\ Silent(q)
    <2>1. /\ IsSeq(q) /\ cmd = requests[p][1] /\ 1 \in DOMAIN requests[p]
          /\ \A i \in DOMAIN q : i + 1 \in DOMAIN requests[p] /\ q[i] = requests[p][i + 1]
          /\ \A e : OnlyFor(requests[p], e) =>
                /\ OnlyFor(q, e)
                /\ cmd # "set_corpus_meta" => Reply(cmd) = e /\ Silent(q)
      BY <1>2, <1>3, ReadCommand
    <2> HIDE DEF q, cmd
    <2> QED BY <1>3, <2>1
  <1>5. /\ IsSeq(a)
        /\ answers[p] = <<>> => a # <<>> /\ Len(a) = 1 /\ Head(a) = Reply(cmd)
    <2> HIDE DEF cmd
    <2>1. answers[p] = <<>> => Len(answers[p]) = 0
      BY <1>3, IsSeqFacts
    <2> QED BY <1>3, <2>1, AppendFacts, OnlyAnswer
  <1>6. \/ /\ cmd = "set_corpus_meta" /\ child' = child /\ answers' = answers
        \/ /\ cmd # "set_corpus_meta" /\ answers' = [answers EXCEPT ![p] = a]
           /\ child' = child \/ child' = [child EXCEPT ![p] = "build"]
        \/ /\ cmd = "process_activations" /\ answers' = answers
           /\ child' = [child EXCEPT ![p] = "compute"]
    <2>1. CASE HandleCommand(p)
      <3>1. cmd \in Commands \ {"process_activations"}
        BY <1>4, <2>1 DEF HandleCommand
      <3>2. CASE cmd = "set_corpus_meta"
        BY <2>1, <3>2 DEF HandleCommand, Answers
      <3>3. CASE cmd # "set_corpus_meta"
        <4>1. cmd \in DOMAIN Answers /\ Reply(cmd) = Answers[cmd]
          BY <3>1, <3>3 DEF Commands, Answers, Reply
        <4> QED BY <2>1, <3>3, <4>1 DEF HandleCommand, Answer, Goes
      <3> QED BY <3>2, <3>3
    <2>2. CASE HandleWork(p)
      <3>1. cmd = "process_activations" /\ Reply(cmd) = "done"
        BY <2>2 DEF HandleWork, Reply
      <3> QED BY <2>2, <3>1 DEF HandleWork, Answer, Goes
    <2> QED BY <2>1, <2>2
  <1> HIDE DEF q, cmd, a
  <1>7. ASSUME OneAnswer(worker[p], child[p], requests[p], answers[p], due[p], verified[p])
        PROVE  /\ cmd = "set_corpus_meta" =>
                     OneAnswer(worker[p], "recv", q, answers[p], due[p], verified[p])
               /\ cmd # "set_corpus_meta" =>
                     /\ OneAnswer(worker[p], "recv", q, a, due[p], verified[p])
                     /\ OneAnswer(worker[p], "build", q, a, due[p], verified[p])
               /\ cmd = "process_activations" =>
                     OneAnswer(worker[p], "compute", q, answers[p], due[p], verified[p])
    <2> DEFINE e == Expected(worker[p], due[p])
    <2>1. /\ OnlyFor(requests[p], e) /\ worker[p] # "device"
          /\ due[p] => worker[p] = "up" /\ verified[p]
      BY <1>2, <1>7 DEF OneAnswer
    <2>2. OnlyFor(q, e) /\ (cmd # "set_corpus_meta" => Reply(cmd) = e /\ Silent(q))
      BY <1>4, <2>1
    <2>3. CASE cmd = "set_corpus_meta"
      <3>1. answers[p] # <<>> => Silent(q)
        <4>1. answers[p] # <<>> => Silent(requests[p])
          BY <1>2, <1>7 DEF OneAnswer
        <4> QED BY <1>2, <1>3, <4>1, ReadCommand DEF q
      <3> QED BY <1>2, <1>7, <2>1, <2>2, <2>3, <3>1 DEF OneAnswer, Working
    <2>4. CASE cmd # "set_corpus_meta"
      <3>1. answers[p] = <<>>
        <4>1. answers[p] # <<>> => Silent(requests[p])
          BY <1>2, <1>7 DEF OneAnswer
        <4>2. Silent(requests[p]) => cmd = "set_corpus_meta"
          BY <1>2, <1>3, ReadCommand DEF cmd
        <4> QED BY <2>4, <4>1, <4>2
      <3>2. Reply(cmd) = e /\ Silent(q) /\ e # "nothing"
        BY <1>4, <2>2, <2>4 DEF Commands, Reply, Answers
      <3>3. /\ OneAnswer(worker[p], "recv", q, a, due[p], verified[p])
            /\ OneAnswer(worker[p], "build", q, a, due[p], verified[p])
        BY <1>5, <2>1, <2>2, <3>1, <3>2 DEF OneAnswer, Working
      <3>4. ASSUME cmd = "process_activations"
            PROVE  OneAnswer(worker[p], "compute", q, <<>>, due[p], verified[p])
        <4>1. Expected(worker[p], due[p]) = "done"
          BY <3>2, <3>4 DEF Reply
        <4>2. worker[p] = "up" /\ due[p]
          BY <4>1 DEF Expected, Answers
        <4> QED BY <2>1, <2>2, <3>2, <4>2 DEF OneAnswer, Working
      <3> QED BY <2>4, <3>1, <3>3, <3>4
    <2> QED BY <2>3, <2>4
  <1>8. {"recv", "build", "compute"} \subseteq ChildPcs
    BY DEF ChildPcs
  <1>9. /\ child = [child EXCEPT ![p] = "recv"]
        /\ answers = [answers EXCEPT ![p] = answers[p]]
    BY <1>1, <1>2, Same
  <1>10. CASE cmd = "set_corpus_meta" /\ child' = child /\ answers' = answers
    BY <1>2, <1>3, <1>4, <1>7, <1>8, <1>9, <1>10, ChildMoves
  <1>11. CASE /\ cmd # "set_corpus_meta" /\ answers' = [answers EXCEPT ![p] = a]
              /\ child' = child
    BY <1>2, <1>4, <1>5, <1>7, <1>8, <1>9, <1>11, ChildMoves
  <1>12. CASE /\ cmd # "set_corpus_meta" /\ answers' = [answers EXCEPT ![p] = a]
              /\ child' = [child EXCEPT ![p] = "build"]
    BY <1>2, <1>4, <1>5, <1>7, <1>8, <1>12, ChildMoves
  <1>13. CASE /\ cmd = "process_activations" /\ answers' = answers
              /\ child' = [child EXCEPT ![p] = "compute"]
    BY <1>2, <1>3, <1>4, <1>7, <1>8, <1>9, <1>13, ChildMoves
  <1> QED BY <1>6, <1>10, <1>11, <1>12, <1>13

\* A child without work joins the others, sees the pipe closed or is killed,
\* and one that has ended its cycle answers.
LEMMA ChildKeepsTalk ==
    ASSUME TalkInv, NEW p \in Ranks, ChildSteps(p) \/ ChildDies(p)
    PROVE  TalkInv'
  <1>1. TalkType
    BY DEF TalkInv
  <1>2. CASE Boot(p)
    BY <1>2, BootKeepsTalk
  <1>3. CASE HandleCommand(p) \/ HandleWork(p)
    BY <1>3, CommandKeepsTalk
  <1>4. CASE LoopEnds(p) \/ Killed(p) \/ ChildDies(p)
    <2>1. /\ setup' = setup /\ UNCHANGED <<requests, answers, due, verified>>
          /\ child' = [child EXCEPT ![p] = "dead"] /\ worker' = worker
          /\ child[p] # "none"
      BY <1>4 DEF LoopEnds, Killed, ChildDies, DeathSignal, Alive, Goes, pipe_vars, cycle_vars
    <2> QED BY <2>1, GoingAwayKeepsTalk
  <1>5. CASE Build(p)
    <2>1. /\ child[p] = "build" /\ setup' = setup
          /\ child' = [child EXCEPT ![p] = "recv"]
          /\ worker' = worker /\ due' = due /\ verified' = verified
          /\ requests' = requests /\ answers' = answers
      BY <1>5 DEF Build, Goes, pipe_vars, cycle_vars
    <2>2. OneAnswer(worker[p], child[p], requests[p], answers[p], due[p], verified[p])
             => OneAnswer(worker[p], "recv", requests[p], answers[p], due[p], verified[p])
      BY <2>1 DEF OneAnswer, Working
    <2>3. /\ requests' = [requests EXCEPT ![p] = requests[p]] /\ IsSeq(requests[p])
          /\ \A i \in DOMAIN requests[p] : requests[p][i] \in Commands
          /\ answers' = [answers EXCEPT ![p] = answers[p]] /\ IsSeq(answers[p])
          /\ "recv" \in ChildPcs
      BY <1>1, <2>1, Same DEF ChildPcs
    <2> QED BY <2>1, <2>2, <2>3, ChildMoves
  <1>6. CASE Finish(p)
    <2> DEFINE a == Append(answers[p], "done")
    <2>1. /\ child[p] = "tail" /\ setup' = setup
          /\ child' = [child EXCEPT ![p] = "recv"]
          /\ worker' = worker /\ due' = due /\ verified' = verified
          /\ requests' = requests /\ answers' = [answers EXCEPT ![p] = a]
      BY <1>6 DEF Finish, Goes, Answer, cycle_vars
    <2>2. /\ requests' = [requests EXCEPT ![p] = requests[p]] /\ IsSeq(requests[p])
          /\ \A i \in DOMAIN requests[p] : requests[p][i] \in Commands
          /\ "recv" \in ChildPcs /\ IsSeq(answers[p])
      BY <1>1, <2>1, Same DEF ChildPcs
    <2>3. /\ IsSeq(a)
          /\ answers[p] = <<>> => a # <<>> /\ Len(a) = 1 /\ Head(a) = "done"
      <3>1. answers[p] = <<>> => Len(answers[p]) = 0
        BY <2>2, IsSeqFacts
      <3> QED BY <2>2, <3>1, AppendFacts, OnlyAnswer
    <2> HIDE DEF a
    <2>4. ASSUME OneAnswer(worker[p], child[p], requests[p], answers[p], due[p], verified[p])
          PROVE  OneAnswer(worker[p], "recv", requests[p], a, due[p], verified[p])
      <3>1. /\ worker[p] = "up" /\ due[p] /\ verified[p]
            /\ answers[p] = <<>> /\ Silent(requests[p])
        BY <2>1, <2>4 DEF OneAnswer, Working
      <3>2. OnlyFor(requests[p], Expected(worker[p], due[p]))
        BY <3>1 DEF OnlyFor, Silent
      <3>3. Expected(worker[p], due[p]) = "done"
        BY <3>1 DEF Expected, Answers
      <3> QED BY <2>3, <3>1, <3>2, <3>3 DEF OneAnswer, Working
    <2> QED BY <2>1, <2>2, <2>3, <2>4, ChildMoves
  <1> QED BY <1>2, <1>3, <1>4, <1>5, <1>6 DEF ChildSteps

-----------------------------------------------------------------------------
(***************************************************************************)
(* The steps of the engine and of all ranks together.                      *)
(***************************************************************************)
\* Every child that is alive gets the work signal, and nothing else is on its
\* way when it is sent: the worker is up, and no answer is due.
LEMMA SignalKeepsTalk ==
    ASSUME TalkInv, setup' = setup, UNCHANGED <<worker, child, answers, verified>>,
           SignalWork, \A r \in Ranks : worker[r] = "up" /\ verified[r] /\ ~due[r]
    PROVE  TalkInv'
  <1> DEFINE cmds(r) == (IF Tp /\ cycles[r] = 0 THEN <<"set_corpus_meta">> ELSE <<>>)
                        \o <<"process_activations">>
  <1>1. TalkType /\ Ranks' = Ranks
    BY DEF TalkInv, Ranks
  <1>2. ASSUME NEW r \in Ranks
        PROVE  /\ IsSeq(cmds(r)) /\ OnlyFor(cmds(r), "done")
               /\ \A i \in DOMAIN cmds(r) : cmds(r)[i] \in Commands
    <2> DEFINE m == IF Tp /\ cycles[r] = 0 THEN <<"set_corpus_meta">> ELSE <<>>
    <2>1. /\ IsSeq(m) /\ Silent(m) /\ \A i \in DOMAIN m : m[i] \in Commands
      <3>1. {"set_corpus_meta"} \subseteq Commands
        BY DEF Commands
      <3> QED BY <3>1, ShortPipes
    <2> DEFINE t == <<"process_activations">>
    <2>2. /\ IsSeq(t) /\ OnlyFor(t, "done") /\ \A i \in DOMAIN t : t[i] \in Commands
      <3>1. "process_activations" \in Commands /\ Reply("process_activations") = "done"
        BY DEF Commands, Reply
      <3> QED BY <3>1, ShortPipes
    <2>3. cmds(r) = m \o t
      OBVIOUS
    <2> HIDE DEF m, t, cmds
    <2> QED BY <2>1, <2>2, <2>3, SendBehind
  <1>3. ASSUME NEW r \in Ranks
        PROVE  requests'[r] = IF Alive(r) THEN requests[r] \o cmds(r) ELSE requests[r]
    BY <1>3 DEF SignalWork, Notified
  <1>4. /\ requests' = [r \in Ranks |-> requests'[r]]
        /\ due' = [r \in Ranks |-> TRUE]
    BY DEF SignalWork
  <1> HIDE DEF cmds
  <1>5. ASSUME NEW r \in Ranks
        PROVE  /\ IsSeq(requests'[r])
               /\ \A i \in DOMAIN requests'[r] : requests'[r][i] \in Commands
               /\ OneAnswer("up", child[r], requests'[r], answers[r], TRUE, TRUE)
    <2>1. /\ IsSeq(requests[r]) /\ \A i \in DOMAIN requests[r] : requests[r][i] \in Commands
      BY <1>1, Same
    <2>2. IsSeq(requests'[r])
      BY <1>2, <1>3, <2>1, SendBehind
    <2>3. \A i \in DOMAIN requests'[r] : requests'[r][i] \in Commands
      <3>1. \A i \in DOMAIN (requests[r] \o cmds(r)) :
               (requests[r] \o cmds(r))[i] \in Commands
        BY <1>2, <2>1, SendBehind
      <3>2. CASE Alive(r)
        <4>1. requests'[r] = requests[r] \o cmds(r)
          BY <1>3, <3>2
        <4> QED BY <3>1, <4>1
      <3>3. CASE ~Alive(r)
        BY <1>3, <2>1, <3>3
      <3> QED BY <3>2, <3>3
    <2>4. OneAnswer("up", child[r], requests[r], answers[r], due[r], verified[r])
      BY DEF TalkInv, Talk, Here
    <2>5. Expected("up", due[r]) = "nothing" /\ Expected("up", TRUE) = "done"
      BY DEF Expected, Answers
    <2>6. /\ answers[r] = <<>> /\ child[r] \notin Working /\ child[r] # "none"
          /\ child[r] # "dead" => Silent(requests[r])
      BY <2>1, <2>4, <2>5, RepliesAreEvents DEF OneAnswer, Working
    <2>7. child[r] # "dead" => OnlyFor(requests'[r], "done")
      <3>1. child[r] # "dead" => Alive(r)
        BY <2>6 DEF Alive
      <3> QED BY <1>2, <1>3, <2>1, <2>6, <3>1, SendBehind
    <2>8. OneAnswer("up", child[r], requests'[r], answers[r], TRUE, TRUE)
      BY <2>5, <2>6, <2>7 DEF OneAnswer, Working
    <2> QED BY <2>2, <2>3, <2>8
  <1>6. TalkType'
    <2>1. /\ worker' \in [Ranks -> Stages] /\ child' \in [Ranks -> ChildPcs]
          /\ verified' \in [Ranks -> BOOLEAN] /\ due' \in [Ranks -> BOOLEAN]
          /\ answers' = [r \in Ranks |-> answers'[r]]
          /\ \A r \in Ranks : IsSeq(answers'[r])
      BY <1>1, <1>4 DEF TalkType
    <2> QED BY <1>1, <1>4, <1>5, <2>1 DEF TalkType, IsSeq
  <1>7. ASSUME NEW r \in Ranks PROVE Talk(r)'
    <2>1. /\ worker'[r] = "up" /\ child'[r] = child[r] /\ answers'[r] = answers[r]
          /\ due'[r] = TRUE /\ verified'[r] = TRUE
      BY <1>1, <1>4 DEF TalkType
    <2>2. OneAnswer(worker'[r], child'[r], requests'[r], answers'[r], due'[r], verified'[r])
      BY <1>5, <2>1
    <2> QED BY <2>2 DEF Talk
  <1> QED BY <1>1, <1>6, <1>7 DEF TalkInv

\* Any message counts as the backward's answer, and it is the only one.
LEMMA AckKeepsTalk ==
    ASSUME TalkInv, setup' = setup, NEW p \in Ranks, TakeAck(p),
           UNCHANGED <<worker, child, requests, verified>>
    PROVE  TalkInv'
  <1>1. TalkType
    BY DEF TalkInv
  <1>2. /\ due[p] /\ answers[p] # <<>>
        /\ answers' = [answers EXCEPT ![p] = Tail(answers[p])]
        /\ due' = [due EXCEPT ![p] = FALSE]
    BY DEF TakeAck
  <1>3. answers'[p] = Tail(answers[p]) /\ due'[p] = FALSE
    BY <1>1, <1>2, Assigned
  <1>4. IsSeq(Tail(answers[p]))
    <2>1. IsSeq(answers[p])
      BY <1>1, Same
    <2> QED BY <1>2, <2>1, TailFacts
  <1>5. ASSUME Here(p)
        PROVE  OneAnswer(worker[p], child[p], requests[p], answers'[p], FALSE, verified[p])
    <2>1. OneAnswer(worker[p], child[p], requests[p], answers[p], due[p], verified[p])
      BY <1>5 DEF TalkInv, Talk
    <2>2. /\ worker[p] = "up" /\ Len(answers[p]) = 1
          /\ child[p] \notin Working /\ child[p] # "none"
          /\ child[p] # "dead" => Silent(requests[p])
      BY <1>2, <2>1 DEF OneAnswer
    <2>3. answers'[p] = <<>>
      <3>1. IsSeq(answers[p])
        BY <1>1, Same
      <3>2. Tail(answers[p]) = <<>>
        BY <1>2, <2>2, <3>1, TailOfOne
      <3> QED BY <1>3, <3>2
    <2>4. OneAnswer(worker[p], child[p], requests[p], <<>>, FALSE, verified[p])
      BY <2>2, AtRest
    <2> QED BY <2>3, <2>4
  <1>6. /\ answers' = [answers EXCEPT ![p] = answers'[p]] /\ IsSeq(answers'[p])
        /\ due' = [due EXCEPT ![p] = due'[p]] /\ due'[p] \in BOOLEAN
        /\ worker'[p] = worker[p] /\ child'[p] = child[p]
        /\ requests'[p] = requests[p] /\ verified'[p] = verified[p]
    BY <1>2, <1>3, <1>4
  <1>7. Here(p)' => OneAnswer(worker'[p], child'[p], requests'[p], answers'[p],
                              due'[p], verified'[p])
    BY <1>3, <1>5, <1>6 DEF Here
  <1> QED BY <1>1, <1>6, <1>7, Same, OneRank

\* The size of the corpus is not answered.
LEMMA ServeKeepsTalk ==
    ASSUME TalkInv, Serve
    PROVE  TalkInv'
  <1> DEFINE m == IF Tp THEN <<>> ELSE <<"set_corpus_meta">>
  <1>1. TalkType /\ setup' = setup /\ Ranks' = Ranks
        /\ worker' = worker /\ child' = child /\ answers' = answers
        /\ due' = due /\ verified' = verified
    BY DEF TalkInv, Serve, Ranks, cycle_vars
  <1>2. /\ IsSeq(m) /\ Silent(m) /\ \A i \in DOMAIN m : m[i] \in Commands
    <2>1. {"set_corpus_meta"} \subseteq Commands
      BY DEF Commands
    <2> QED BY <2>1, ShortPipes
  <1>3. /\ requests' = [r \in Ranks |-> requests'[r]]
        /\ \A r \in Ranks :
              requests'[r] = IF Alive(r) THEN requests[r] \o m ELSE requests[r]
    BY DEF Serve, Notified
  <1> HIDE DEF m
  <1>4. ASSUME NEW r \in Ranks
        PROVE  /\ IsSeq(requests'[r])
               /\ \A i \in DOMAIN requests'[r] : requests'[r][i] \in Commands
               /\ Silent(requests[r]) => Silent(requests'[r])
               /\ \A e : OnlyFor(requests[r], e) => OnlyFor(requests'[r], e)
    <2>1. /\ IsSeq(requests[r]) /\ \A i \in DOMAIN requests[r] : requests[r][i] \in Commands
      BY <1>1, Same
    <2> DEFINE q == requests[r] \o m
    <2>2. /\ IsSeq(q) /\ \A i \in DOMAIN q : q[i] \in Commands
          /\ Silent(requests[r]) => Silent(q)
          /\ \A e : OnlyFor(requests[r], e) => OnlyFor(q, e)
      BY <1>2, <2>1, SendBehind
    <2>3. requests'[r] = q \/ requests'[r] = requests[r]
      BY <1>3
    <2> HIDE DEF q
    <2> QED BY <2>1, <2>2, <2>3
  <1>5. TalkType'
    <2>1. /\ worker' \in [Ranks -> Stages] /\ child' \in [Ranks -> ChildPcs]
          /\ verified' \in [Ranks -> BOOLEAN] /\ due' \in [Ranks -> BOOLEAN]
          /\ answers' = [r \in Ranks |-> answers'[r]]
          /\ \A r \in Ranks : IsSeq(answers'[r])
      BY <1>1 DEF TalkType
    <2> QED BY <1>1, <1>3, <1>4, <2>1 DEF TalkType, IsSeq
  <1>6. ASSUME NEW r \in Ranks, Here(r)' PROVE Talk(r)'
    <2>1. worker[r] = "up"
      BY DEF Serve
    <2>2. OneAnswer("up", child[r], requests[r], answers[r], due[r], verified[r])
      BY <2>1 DEF TalkInv, Talk, Here
    <2>3. OneAnswer("up", child[r], requests'[r], answers[r], due[r], verified[r])
      BY <1>4, <2>2 DEF OneAnswer
    <2> QED BY <1>1, <2>1, <2>3 DEF Talk
  <1> QED BY <1>1, <1>5, <1>6 DEF TalkInv

\* The server is started again: no worker, no child and nothing in the pipes.
LEMMA FreshTalk ==
    /\ setup' = setup /\ Restart => TalkInv'
    /\ \A s : InitFor(s) => TalkInv
  <1>1. ASSUME NEW r, NEW v
        PROVE  OneAnswer("device", "none", <<>>, <<>>, FALSE, v)
    BY ShortPipes DEF OneAnswer, Working
  <1>2. ASSUME setup' = setup, Restart PROVE TalkInv'
    <2>1. Ranks' = Ranks
      BY <1>2 DEF Ranks
    <2>2. TalkType'
      BY <1>2, <2>1, ShortPipes DEF Restart, TalkType, Stages, ChildPcs
    <2>3. ASSUME NEW r \in Ranks PROVE Talk(r)'
      BY <1>1, <1>2, <2>3 DEF Restart, Talk
    <2> QED BY <2>1, <2>2, <2>3 DEF TalkInv
  <1>3. ASSUME NEW s, InitFor(s) PROVE TalkInv
    <2>1. TalkType
      BY <1>3, ShortPipes DEF InitFor, TalkType, Stages, ChildPcs, Ranks
    <2>2. ASSUME NEW r \in Ranks PROVE Talk(r)
      BY <1>1, <1>3, <2>2 DEF InitFor, Talk, Ranks
    <2> QED BY <2>1, <2>2 DEF TalkInv
  <1> QED BY <1>2, <1>3

\* All ranks pass the collectives of a cycle together.
LEMMA ReduceKeepsTalk ==
    ASSUME TalkInv, Reduce
    PROVE  TalkInv'
  <1>1. /\ Ranks' = Ranks /\ TalkType /\ \A r \in Ranks : child[r] = "compute"
        /\ child' = [r \in Ranks |-> "tail"]
        /\ UNCHANGED <<worker, requests, answers, due, verified>>
    BY DEF Reduce, Ranks, pipe_vars, cycle_vars, TalkInv
  <1>2. TalkType'
    <2>1. \A r \in Ranks :
             /\ IsSeq(requests'[r]) /\ IsSeq(answers'[r])
             /\ \A i \in DOMAIN requests'[r] : requests'[r][i] \in Commands
      BY <1>1 DEF TalkType
    <2>2. /\ requests' = [r \in Ranks |-> requests'[r]]
          /\ answers' = [r \in Ranks |-> answers'[r]]
          /\ worker' \in [Ranks -> Stages] /\ child' \in [Ranks -> ChildPcs]
          /\ verified' \in [Ranks -> BOOLEAN] /\ due' \in [Ranks -> BOOLEAN]
      BY <1>1 DEF TalkType, ChildPcs
    <2> QED BY <1>1, <2>1, <2>2 DEF TalkType, IsSeq
  <1>3. ASSUME NEW r \in Ranks, Here(r)' PROVE Talk(r)'
    <2>1. OneAnswer(worker[r], "compute", requests[r], answers[r], due[r], verified[r])
      BY <1>1, <1>3 DEF TalkInv, Talk, Here
    <2>2. OneAnswer(worker[r], "tail", requests[r], answers[r], due[r], verified[r])
      BY <2>1 DEF OneAnswer, Working
    <2> QED BY <1>1, <2>2 DEF Talk
  <1> QED BY <1>1, <1>2, <1>3 DEF TalkInv

\* A step that leaves the workers, the children and the pipes alone.
LEMMA NothingKeepsTalk ==
    ASSUME TalkInv, UNCHANGED <<setup, worker, child, requests, answers, due, verified>>
    PROVE  TalkInv'
  <1>1. TalkType' /\ Ranks' = Ranks
    <2>1. TalkType /\ Ranks' = Ranks
      BY DEF TalkInv, Ranks
    <2>2. \A r \in Ranks :
             /\ IsSeq(requests'[r]) /\ IsSeq(answers'[r])
             /\ \A i \in DOMAIN requests'[r] : requests'[r][i] \in Commands
      BY <2>1 DEF TalkType
    <2>3. /\ requests' = [r \in Ranks |-> requests'[r]]
          /\ answers' = [r \in Ranks |-> answers'[r]]
          /\ worker' \in [Ranks -> Stages] /\ child' \in [Ranks -> ChildPcs]
          /\ verified' \in [Ranks -> BOOLEAN] /\ due' \in [Ranks -> BOOLEAN]
      BY <2>1 DEF TalkType
    <2> QED BY <2>1, <2>2, <2>3 DEF TalkType, IsSeq
  <1>2. ASSUME NEW r \in Ranks, Here(r)' PROVE Talk(r)'
    BY <1>2 DEF TalkInv, Talk, Here
  <1> QED BY <1>1, <1>2 DEF TalkInv

\* A step of the processes.
LEMMA LaunchKeepsTalk ==
    ASSUME TalkInv, LaunchNext
    PROVE  TalkInv'
  <1>1. ASSUME NEW p \in Ranks, PollBackward(p) PROVE TalkInv'
    <2>1. setup' = setup /\ TakeAck(p) /\ UNCHANGED <<worker, child, requests, verified>>
      BY <1>1 DEF PollBackward
    <2> QED BY <2>1, AckKeepsTalk
  <1>2. CASE TriggerBackward
    <2>1. /\ setup' = setup /\ SignalWork
          /\ UNCHANGED <<worker, child, answers, verified>>
          /\ \A r \in Ranks : worker[r] = "up" /\ verified[r] /\ ~due[r]
      BY <1>2 DEF TriggerBackward, Ready
    <2> QED BY <2>1, SignalKeepsTalk
  <1>3. CASE EngineGivesUp \/ EngineCrashes
    BY <1>3, NothingKeepsTalk DEF EngineGivesUp, EngineCrashes, pipe_vars, cycle_vars
  <1>4. CASE Reduce \/ Serve
    BY <1>4, ReduceKeepsTalk, ServeKeepsTalk
  <1> QED BY <1>1, <1>2, <1>3, <1>4, WorkerKeepsTalk, ChildKeepsTalk
          DEF LaunchNext, EngineSteps

\* The steps of the engine on one GPU: it takes the child's answer before a
\* step and sends the work signal after one, when no answer is due.
LEMMA StepKeepsTalk ==
    ASSUME TalkInv, Schedule \/ Execute
    PROVE  TalkInv'
  <1>1. CASE Schedule
    <2>1. UNCHANGED <<setup, worker, child, requests, verified>> /\ Poll
      BY <1>1 DEF Schedule
    <2>2. \/ UNCHANGED <<answers, due>>
          \/ \E r \in Ranks : TakeAck(r)
      BY <2>1 DEF Poll
    <2> QED BY <2>1, <2>2, AckKeepsTalk, NothingKeepsTalk
  <1>2. CASE Execute
    <2>1. /\ UNCHANGED <<setup, worker, child, answers, verified>>
          /\ \A r \in Ranks : worker[r] = "up" /\ (step.feats.t_ft > 0 => verified[r])
          /\ \/ step.feats.t_ft > 0 /\ ~Pending /\ SignalWork
             \/ UNCHANGED <<requests, due>>
      BY <1>2 DEF Execute
    <2>2. CASE step.feats.t_ft > 0 /\ ~Pending /\ SignalWork
      <3>1. \A r \in Ranks : worker[r] = "up" /\ verified[r] /\ ~due[r]
        BY <2>1, <2>2 DEF Pending
      <3> QED BY <2>1, <2>2, <3>1, SignalKeepsTalk
    <2> QED BY <2>1, <2>2, NothingKeepsTalk
  <1> QED BY <1>1, <1>2

\* One event at most is on its way to a worker, and it is the one it expects:
\* every other action leaves the processes alone.
LEMMA TalkInvariant == Spec => []TalkInv
  <1>1. Init => TalkInv
    BY FreshTalk DEF Init
  <1>2. TalkInv /\ [Next]_vars => TalkInv'
    <2> SUFFICES ASSUME TalkInv, [Next]_vars PROVE TalkInv'
      OBVIOUS
    <2>1. CASE LaunchNext
      BY <2>1, LaunchKeepsTalk
    <2>2. CASE Schedule \/ Execute
      BY <2>2, StepKeepsTalk
    <2>3. CASE Relaunch
      BY <2>3, FreshTalk DEF Relaunch, Restart
    <2>4. CASE \/ BeforeBusyLoop \/ ProfilingStep \/ EndShape \/ EndProfile \/ SaveState
               \/ (\E k \in options.kinds : AddRequest(k))
               \/ Shutdown \/ UNCHANGED vars
      <3>1. UNCHANGED <<setup, worker, child, requests, answers, due, verified>>
        BY <2>4 DEF BeforeBusyLoop, ProfilingStep, EndShape, EndProfile, SaveState,
                    AddRequest, Shutdown, vars, launch_vars, pipe_vars, cycle_vars
      <3> QED BY <3>1, NothingKeepsTalk
    <2> QED BY <2>1, <2>2, <2>3, <2>4 DEF Next
  <1> QED BY <1>1, <1>2, PTL DEF Spec

\* Every recv and every poll finds the event its reader waits for, in every
\* deployment, with every fault, in the launch and in any number of cycles.
THEOREM AnswersAreAwaited == Spec => []AnswersMatch
  <1>1. TalkInv => AnswersMatch
    <2> SUFFICES ASSUME TalkInv, NEW r \in Ranks, Here(r), answers[r] # <<>>
                 PROVE  /\ Len(answers[r]) = 1
                        /\ \/ worker[r] \in Waiting /\ Head(answers[r]) = Awaited(r)
                           \/ worker[r] = "up" /\ due[r] /\ Head(answers[r]) = "done"
      BY DEF AnswersMatch
    <2>1. OneAnswer(worker[r], child[r], requests[r], answers[r], due[r], verified[r])
      BY DEF TalkInv, Talk
    <2>2. /\ Len(answers[r]) = 1 /\ Head(answers[r]) = Expected(worker[r], due[r])
          /\ Head(answers[r]) # "nothing"
      BY <2>1 DEF OneAnswer
    <2> QED BY <2>2 DEF Expected, Awaited, Waiting, Answers
  <1> QED BY <1>1, TalkInvariant, PTL

-----------------------------------------------------------------------------
(***************************************************************************)
(* What the fits rest on.                                                  *)
(***************************************************************************)
\* What the tracker keeps of a sample.
LEMMA TrackedIsHonest ==
    ASSUME NEW sample, sample.hot => sample.feats.bwd
    PROVE  Honest(Tracked(sample))
  <1> DEFINE f == sample.feats
             one(n) == IF n > 0 THEN 1 ELSE 0
             s == Tracked(sample)
  <1>1. /\ s.t_in = one(f.t_ft) + one(f.t_in - f.t_ft) /\ s.t_ft = one(f.t_ft)
        /\ s.bwd = f.bwd /\ s.hot = sample.hot
    BY DEF Tracked
  <1>2. one(f.t_ft) \in {0, 1} /\ one(f.t_in - f.t_ft) \in {0, 1}
    OBVIOUS
  <1> HIDE DEF one, s
  <1>3. s.t_in \in s.t_ft .. 2 /\ s.t_ft \in {0, 1}
    BY <1>1, <1>2
  <1> QED BY <1>1, <1>3 DEF Honest, s

\* The last of the samples that are queued and of those the tracker had.
LEMMA DrainedIsHonest ==
    ASSUME SamplesInv
    PROVE  HonestAll(Drained)
  <1> DEFINE new == [i \in DOMAIN completed |-> Tracked(completed[i])]
             all == tracker \o new
             m == AtLeast(0, Len(all) - options.max_steps) + 1
  <1>1. /\ IsSeq(completed) /\ DOMAIN completed = 1 .. Len(completed)
        /\ Len(completed) \in Nat
    BY IsSeqFacts DEF SamplesInv, Stamped
  <1>2. \A i \in DOMAIN new : Honest(new[i])
    BY TrackedIsHonest DEF SamplesInv, Stamped
  <1>3. IsSeq(new)
    <2>1. DOMAIN new = 1 .. Len(completed)
      BY <1>1
    <2> HIDE DEF new
    <2>2. new = [i \in 1 .. Len(completed) |-> new[i]]
      BY <2>1 DEF new
    <2>3. new \in [1 .. Len(completed) -> {new[i] : i \in DOMAIN new}]
      BY <2>1, <2>2
    <2> DEFINE S == {new[i] : i \in DOMAIN new}
    <2>4. new \in Seq(S)
      <3> HIDE DEF S, new
      <3>1. new \in UNION {[1 .. n -> S] : n \in Nat}
        BY <1>1, <2>3 DEF S
      <3> QED BY <3>1, SeqDef
    <2> QED BY <2>4 DEF IsSeq
  <1>4. IsSeq(all) /\ \A i \in DOMAIN all : Honest(all[i])
    <2>1. HonestAll(tracker)
      BY DEF SamplesInv
    <2>2. /\ IsSeq(all) /\ Len(all) = Len(tracker) + Len(new)
          /\ \A j \in 1 .. Len(tracker) : all[j] = tracker[j]
          /\ \A j \in 1 .. Len(new) : all[Len(tracker) + j] = new[j]
      <3> HIDE DEF new
      <3> QED BY <1>3, <2>1, ConcatFacts DEF HonestAll
    <2>3. /\ DOMAIN tracker = 1 .. Len(tracker) /\ DOMAIN new = 1 .. Len(new)
          /\ Len(tracker) \in Nat /\ Len(new) \in Nat
      <3> HIDE DEF new
      <3> QED BY <1>3, <2>1, IsSeqFacts DEF HonestAll
    <2> HIDE DEF all, new
    <2>4. DOMAIN all = 1 .. Len(tracker) + Len(new)
      BY <2>2, IsSeqFacts
    <2>5. ASSUME NEW i \in DOMAIN all PROVE Honest(all[i])
      <3>1. i \in Int /\ (i \in 1 .. Len(tracker) \/ i - Len(tracker) \in 1 .. Len(new))
        BY <2>3, <2>4
      <3>2. CASE i \in 1 .. Len(tracker)
        BY <2>1, <2>2, <2>3, <3>2 DEF HonestAll
      <3>3. CASE i - Len(tracker) \in 1 .. Len(new)
        <4>1. Len(tracker) + (i - Len(tracker)) = i
          BY <2>3, <3>1
        <4>2. all[i] = new[i - Len(tracker)]
          BY <2>2, <3>3, <4>1
        <4> QED BY <1>2, <2>3, <3>3, <4>2
      <3> QED BY <3>1, <3>2, <3>3
    <2> QED BY <2>2, <2>5
  <1> HIDE DEF all
  <1>5. Len(all) \in Nat /\ DOMAIN all = 1 .. Len(all)
    BY <1>4, IsSeqFacts
  <1>6. m \in Nat \ {0}
    <2>1. options.max_steps \in Nat
      BY StepAssumption DEF SamplesInv, Option
    <2> QED BY <1>5, <2>1 DEF AtLeast
  <1> HIDE DEF m
  <1> DEFINE H == {all[i] : i \in DOMAIN all}
             u == SubSeq(all, m, Len(all))
  <1>7. \A i \in m .. Len(all) : all[i] \in H
    BY <1>5, <1>6
  <1>8. u \in Seq(H)
    <2> HIDE DEF H
    <2> QED BY <1>5, <1>6, <1>7, SubSeqProperties
  <1>9. \A x \in H : Honest(x)
    BY <1>4
  <1> HIDE DEF H, u
  <1>10. IsSeq(u) /\ \A i \in DOMAIN u : Honest(u[i])
    BY <1>8, <1>9 DEF IsSeq
  <1>11. u = Drained
    BY DEF u, m, all, Drained
  <1> QED BY <1>10, <1>11 DEF HonestAll

\* A fit from honest samples: what is left of those that had company, once the
\* contended steps are put aside, are decodes beside the backward.
LEMMA FitKeepsClean ==
    ASSUME NEW t, HonestAll(t), dirty \subseteq {"decode_bwd"}, DataFit(t)
    PROVE  dirty' \subseteq {"decode_bwd"}
  <1>1. ASSUME NEW regime, NEW i \in FitSamples(t, regime), t[i].hot
        PROVE  regime = "decode_bwd"
    <2>1. Honest(t[i]) /\ ~Contended(t[i]) /\ Regime(t[i]) = regime
      BY <1>1 DEF HonestAll, FitSamples
    <2>2. t[i].bwd /\ t[i].t_ft \in {0, 1} /\ t[i].t_in \in t[i].t_ft .. 2
      BY <1>1, <2>1 DEF Honest
    <2>3. ~(t[i].t_in > 0)
      BY <2>1, <2>2 DEF Contended
    <2>4. ~(t[i].t_ft > 0)
      BY <2>2, <2>3
    <2> QED BY <2>1, <2>2, <2>3, <2>4 DEF Regime
  <1> QED BY <1>1 DEF DataFit

\* A prediction for another regime never takes the contended decode's numbers.
LEMMA NobodyBorrowsContended ==
    ASSUME NEW regime \in Regimes \ {"decode_bwd"}, NEW fits
    PROVE  Select(regime, fits) # "decode_bwd"
  <1> DEFINE order == <<regime>> \o Borrows(regime)
             usable == {i \in DOMAIN order : order[i] \in fits}
             four == <<"eager", "ft_mixed", "inf_prefill", "decode_only">>
             rest == Borrows(regime)
  <1>1. /\ IsSeq(four) /\ Len(four) = 4
        /\ \A j \in 1 .. 4 : four[j] # "decode_bwd"
    BY DEF IsSeq
  <1>2. rest = <<>> \o four
    BY DEF Borrows
  <1> HIDE DEF four, rest
  <1>3. /\ IsSeq(rest) /\ Len(rest) = 4
        /\ \A j \in 1 .. 4 : rest[j] # "decode_bwd"
    <2> DEFINE none == <<>>
    <2>1. IsSeq(none) /\ Len(none) = 0 /\ rest = none \o four
      BY <1>2, OneFacts
    <2> HIDE DEF none
    <2>2. IsSeq(none) /\ IsSeq(four)
      BY <1>1, <2>1
    <2> DEFINE c == none \o four
    <2>3. /\ IsSeq(c) /\ Len(c) = Len(none) + Len(four)
          /\ \A j \in 1 .. Len(four) : c[Len(none) + j] = four[j]
      BY <2>2, ConcatFacts
    <2>4. rest = c
      BY <2>1
    <2> HIDE DEF c
    <2> QED BY <1>1, <2>1, <2>3, <2>4
  <1>4. /\ IsSeq(order) /\ Len(order) = 5 /\ order[1] = regime
        /\ \A j \in 1 .. 4 : order[1 + j] = rest[j]
    <2>1. order = <<regime>> \o rest
      BY DEF rest
    <2> DEFINE one == <<regime>>
    <2>2. IsSeq(one) /\ Len(one) = 1 /\ one[1] = regime
      BY OneFacts
    <2>3. order = one \o rest
      BY <2>1
    <2> HIDE DEF one, order
    <2>4. IsSeq(one) /\ IsSeq(rest)
      BY <1>3, <2>2
    <2> DEFINE c == one \o rest
    <2>5. /\ IsSeq(c) /\ Len(c) = Len(one) + Len(rest)
          /\ \A j \in 1 .. Len(one) : c[j] = one[j]
          /\ \A j \in 1 .. Len(rest) : c[Len(one) + j] = rest[j]
      BY <2>4, ConcatFacts
    <2>6. order = c
      BY <2>3
    <2> HIDE DEF c
    <2> QED BY <1>3, <2>2, <2>5, <2>6
  <1> HIDE DEF order
  <1>5. DOMAIN order = 1 .. 5 /\ \A i \in 1 .. 5 : order[i] # "decode_bwd"
    <2>1. DOMAIN order = 1 .. 5
      BY <1>4, IsSeqFacts
    <2>2. ASSUME NEW i \in 1 .. 5 PROVE order[i] # "decode_bwd"
      <3>1. CASE i = 1
        BY <1>4, <3>1
      <3>2. CASE i # 1
        <4>1. i - 1 \in 1 .. 4 /\ 1 + (i - 1) = i
          BY <3>2
        <4> QED BY <1>3, <1>4, <4>1
      <3> QED BY <3>1, <3>2
    <2> QED BY <2>1, <2>2
  <1>6. ASSUME usable # {} PROVE Min(usable) \in usable
    <2>1. usable \subseteq 1 .. 5
      BY <1>5
    <2> HIDE DEF usable
    <2>2. \E x \in usable : \A y \in usable : x <= y
      <3>1. CASE 1 \in usable
        BY <2>1, <3>1
      <3>2. CASE 1 \notin usable /\ 2 \in usable
        BY <2>1, <3>2
      <3>3. CASE 1 \notin usable /\ 2 \notin usable /\ 3 \in usable
        BY <2>1, <3>3
      <3>4. CASE 1 \notin usable /\ 2 \notin usable /\ 3 \notin usable /\ 4 \in usable
        BY <2>1, <3>4
      <3>5. CASE usable \subseteq {5}
        <4>1. 5 \in usable
          BY <1>6, <3>5 DEF usable
        <4> QED BY <3>5, <4>1
      <3>6. \A x \in usable : x \in {1, 2, 3, 4, 5}
        BY <2>1
      <3> QED BY <3>1, <3>2, <3>3, <3>4, <3>5, <3>6
    <2> QED BY <2>2 DEF Min
  <1>7. ASSUME usable # {} PROVE order[Min(usable)] # "decode_bwd"
    BY <1>5, <1>6, <1>7
  <1>8. Select(regime, fits) = IF usable = {} THEN "none" ELSE order[Min(usable)]
    BY DEF Select, order
  <1> HIDE DEF usable
  <1> QED BY <1>7, <1>8

\* What is scheduled is stamped with the backward of the moment.
LEMMA PutStamps ==
    ASSUME NEW queue, NEW taken, NEW judged, NEW bwd, Put(queue, taken, judged, bwd)
    PROVE  step' # NoStep => step'.feats.bwd = bwd
  BY DEF Put, FeaturesFromOutput, Features

\* The samples the runner has pushed, on their way to the tracker.
LEMMA DrainKeepsSamples ==
    ASSUME SamplesInv, DrainAndRefit
    PROVE  /\ HonestAll(tracker') /\ Stamped(completed')
           /\ dirty' \subseteq {"decode_bwd"}
  <1>1. HonestAll(tracker') /\ HonestAll(Drained)
    BY DrainedIsHonest DEF DrainAndRefit
  <1>2. Stamped(completed')
    BY OneFacts DEF DrainAndRefit, Stamped
  <1>3. dirty' \subseteq {"decode_bwd"}
    <2>1. dirty \subseteq {"decode_bwd"}
      BY DEF SamplesInv
    <2>2. DataFit(Drained) \/ dirty' = dirty
      BY DEF DrainAndRefit
    <2> QED BY <1>1, <2>1, <2>2, FitKeepsClean
  <1> QED BY <1>1, <1>2, <1>3

\* A saved state comes back as it was.
LEMMA LoadKeepsSamples ==
    ASSUME SamplesInv, Load
    PROVE  HonestAll(tracker') /\ dirty' \subseteq {"decode_bwd"}
  BY DEF SamplesInv, Load, Imported, model_vars

\* The engine schedules, or raises and saves what it has.
LEMMA ScheduleKeepsFit ==
    ASSUME FitInv, Schedule
    PROVE  FitInv'
  <1>1. /\ stage = "serving" /\ DrainAndRefit /\ SamplesInv /\ CompanyInv
        /\ UNCHANGED <<setup, stage, options, ring>>
    BY DEF Schedule, FitInv, profile_vars
  <1>2. step' # NoStep => step'.feats.bwd = Pending'
    <2>1. \E queue, taken, judged : Put(queue, taken, judged, Pending')
      BY DEF Schedule
    <2> QED BY <2>1, PutStamps
  <1>3. CompanyInv'
    BY <1>1, <1>2 DEF CompanyInv
  <1>4. /\ HonestAll(tracker') /\ Stamped(completed')
        /\ dirty' \subseteq {"decode_bwd"}
    BY <1>1, DrainKeepsSamples
  <1>5. file' = file \/ file' = [tracker |-> tracker', last_refit |-> last_refit',
                                 fitted |-> fitted', dirty |-> dirty']
    BY DEF Schedule, EngineRaises, SaveOnce
  <1>6. file' # NoFile => HonestAll(file'.tracker) /\ file'.dirty \subseteq {"decode_bwd"}
    BY <1>1, <1>4, <1>5 DEF SamplesInv
  <1>7. SamplesInv'
    BY <1>1, <1>4, <1>6 DEF SamplesInv, Stamped, HonestAll, IsSeq, Honest, NoFile
  <1> QED BY <1>3, <1>7 DEF FitInv

\* The runner takes the sample of the step, and the work signal goes out only
\* when the step is over.
LEMMA ExecuteKeepsFit ==
    ASSUME FitInv, TalkType, Execute
    PROVE  FitInv'
  <1>1. /\ step # NoStep /\ step' = NoStep /\ SamplesInv /\ CompanyInv
        /\ UNCHANGED <<setup, stage, options, tracker, dirty, file>>
        /\ stage # "serving" => due' = due
    BY DEF Execute, FitInv, profile_vars, model_vars, Triggers
  <1>2. CompanyInv'
    BY <1>1 DEF CompanyInv, Pending, Ranks
  <1> DEFINE hot == \E r \in Ranks : due[r] /\ Alive(r) /\ answers[r] = <<>>
             sample == [feats |-> step.feats, hot |-> hot, rec |-> Recording]
             short == IF Len(ring) = options.ring THEN Tail(ring) ELSE ring
  <1>3. sample.hot => sample.feats.bwd
    BY <1>1 DEF CompanyInv, Pending
  <1>4. /\ ring' = Append(short, sample)
        /\ \/ completed' = completed
           \/ /\ Len(ring) = options.ring
              /\ completed' = Append(completed, Head(ring))
    BY DEF Execute, TakeTiming, PushSample
  <1>5. Stamped(ring) /\ Stamped(completed)
    BY <1>1 DEF SamplesInv
  <1>6. \A t, e : Stamped(t) /\ (e.hot => e.feats.bwd) => Stamped(Append(t, e))
    <2> SUFFICES ASSUME NEW t, NEW e, Stamped(t), e.hot => e.feats.bwd
                 PROVE  Stamped(Append(t, e))
      OBVIOUS
    <2> DEFINE u == Append(t, e)
    <2>1. IsSeq(t)
      BY DEF Stamped
    <2>2. /\ IsSeq(u) /\ Len(u) = Len(t) + 1 /\ u[Len(t) + 1] = e
          /\ \A j \in 1 .. Len(t) : u[j] = t[j]
      BY <2>1, AppendFacts
    <2> HIDE DEF u
    <2>3. /\ DOMAIN u = 1 .. Len(t) + 1 /\ DOMAIN t = 1 .. Len(t) /\ Len(t) \in Nat
      BY <2>1, <2>2, IsSeqFacts
    <2>4. \A i \in DOMAIN u : i \in DOMAIN t \/ i = Len(t) + 1
      BY <2>3
    <2>5. Stamped(u)
      BY <2>2, <2>3, <2>4 DEF Stamped
    <2> QED BY <2>5 DEF u
  <1>7. Len(ring) = options.ring =>
           Stamped(Tail(ring)) /\ (Head(ring).hot => Head(ring).feats.bwd)
    <2> SUFFICES ASSUME Len(ring) = options.ring
                 PROVE  Stamped(Tail(ring)) /\ (Head(ring).hot => Head(ring).feats.bwd)
      OBVIOUS
    <2>1. options.ring \in Nat \ {0}
      BY <1>1, StepAssumption DEF SamplesInv, Option
    <2>2. IsSeq(ring) /\ Len(ring) > 0
      BY <1>5, <2>1 DEF Stamped
    <2>3. ring # <<>> /\ Head(ring) = ring[1] /\ DOMAIN ring = 1 .. Len(ring)
      BY <2>2, IsSeqFacts
    <2> DEFINE u == Tail(ring)
    <2>4. /\ IsSeq(u) /\ Len(u) = Len(ring) - 1
          /\ \A j \in 1 .. Len(ring) - 1 : u[j] = ring[j + 1]
      BY <2>2, <2>3, TailFacts
    <2>5. Head(ring).hot => Head(ring).feats.bwd
      <3>1. 1 \in DOMAIN ring
        BY <2>1, <2>3
      <3> QED BY <1>5, <2>3, <3>1 DEF Stamped
    <2> HIDE DEF u
    <2>6. DOMAIN u = 1 .. Len(ring) - 1
      BY <2>4, IsSeqFacts
    <2>7. \A i \in DOMAIN u : i + 1 \in DOMAIN ring
      BY <2>1, <2>3, <2>6
    <2>8. Stamped(u)
      BY <1>5, <2>4, <2>6, <2>7 DEF Stamped
    <2> QED BY <2>5, <2>8 DEF u
  <1> HIDE DEF sample
  <1>8. Stamped(short)
    BY <1>5, <1>7
  <1> HIDE DEF short
  <1>9. Stamped(ring')
    BY <1>3, <1>4, <1>6, <1>8
  <1>10. Stamped(completed')
    BY <1>4, <1>5, <1>6, <1>7
  <1>11. SamplesInv'
    BY <1>1, <1>9, <1>10 DEF SamplesInv, Stamped, HonestAll, IsSeq, Honest, NoFile
  <1> QED BY <1>2, <1>11 DEF FitInv

\* The processes: no backward is asked for between the steps of a server whose
\* steps are modelled.
LEMMA LaunchKeepsFit ==
    ASSUME FitInv, TalkType, LaunchNext, UNCHANGED step_vars
    PROVE  FitInv'
  <1>1. /\ setup' = setup
        /\ ~setup.steps \/ due' = due
    BY DEF LaunchNext, WorkerSteps, ChildSteps, EngineSteps, StartWorker, ShareWeights,
           ShareActivations, ShareLora, TakeAnswer, PipeCloses, TimesOut, WorkerOrphaned,
           Fails, Boot, HandleCommand, Build, HandleWork, Finish, LoopEnds, Killed,
           ChildDies, HashActivations, PollBackward, Reduce, EngineGivesUp, Serve,
           TriggerBackward, EngineCrashes, cycle_vars, pipe_vars
  <1>2. UNCHANGED <<stage, step, options, ring, completed, tracker, dirty, file>>
    BY DEF step_vars, profile_vars, model_vars
  <1>3. CompanyInv'
    BY <1>1, <1>2 DEF FitInv, CompanyInv, Pending, Ranks, NoStep
  <1>4. SamplesInv'
    BY <1>2 DEF FitInv, SamplesInv, Stamped, HonestAll, IsSeq, Honest, NoFile
  <1> QED BY <1>3, <1>4 DEF FitInv

\* The launch pass: it runs without a backward, and its steps are samples like
\* the others.
LEMMA PassKeepsFit ==
    ASSUME FitInv, BeforeBusyLoop \/ ProfilingStep \/ EndShape \/ EndProfile
    PROVE  FitInv'
  <1>1. CompanyInv /\ SamplesInv /\ UNCHANGED <<setup, due, options, ring, file>>
    BY DEF FitInv, BeforeBusyLoop, ProfilingStep, EndShape, EndProfile, launch_vars,
           cycle_vars
  <1>2. Pending' = Pending
    BY <1>1 DEF Pending, Ranks
  <1>3. CASE BeforeBusyLoop
    <2>1. /\ stage = "setup" /\ setup.steps /\ step' = step /\ completed' = completed
          /\ \/ stage' = "serving" /\ Load
             \/ stage' = "profile" /\ UNCHANGED model_vars
      BY <1>3 DEF BeforeBusyLoop, StartProfile
    <2>2. HonestAll(tracker') /\ dirty' \subseteq {"decode_bwd"}
      BY <1>1, <2>1, LoadKeepsSamples DEF SamplesInv, model_vars
    <2>3. CompanyInv'
      BY <1>1, <1>2, <2>1 DEF CompanyInv, NoStep
    <2>4. SamplesInv'
      BY <1>1, <2>1, <2>2 DEF SamplesInv, Stamped, HonestAll, IsSeq, Honest, NoFile
    <2> QED BY <2>3, <2>4 DEF FitInv
  <1>4. CASE ProfilingStep
    <2>1. stage = "profile" /\ stage' = stage /\ DrainAndRefit
      BY <1>4 DEF ProfilingStep
    <2>2. /\ HonestAll(tracker') /\ Stamped(completed')
          /\ dirty' \subseteq {"decode_bwd"}
      BY <1>1, <2>1, DrainKeepsSamples
    <2>3. CompanyInv'
      BY <1>1, <1>2, <2>1 DEF CompanyInv
    <2>4. SamplesInv'
      BY <1>1, <2>2 DEF SamplesInv, Stamped, HonestAll, IsSeq, Honest, NoFile
    <2> QED BY <2>3, <2>4 DEF FitInv
  <1>5. CASE EndShape
    <2>1. UNCHANGED <<stage, step, completed, tracker, dirty>>
      BY <1>5 DEF EndShape, model_vars
    <2>2. CompanyInv'
      BY <1>1, <1>2, <2>1 DEF CompanyInv, NoStep
    <2>3. SamplesInv'
      BY <1>1, <2>1 DEF SamplesInv, Stamped, HonestAll, IsSeq, Honest, NoFile
    <2> QED BY <2>2, <2>3 DEF FitInv
  <1>6. CASE EndProfile
    <2>1. /\ stage' = "serving" /\ step = NoStep /\ step' = step /\ completed' = <<>>
          /\ \/ tracker' = Drained /\ DataFit(Drained)
             \/ Load
      BY <1>6 DEF EndProfile, UpAndIdle
    <2>2. HonestAll(tracker') /\ dirty' \subseteq {"decode_bwd"}
      <3>1. CASE tracker' = Drained /\ DataFit(Drained)
        <4>1. HonestAll(Drained) /\ dirty \subseteq {"decode_bwd"}
          BY <1>1, DrainedIsHonest DEF SamplesInv
        <4> QED BY <3>1, <4>1, FitKeepsClean
      <3>2. CASE Load
        BY <1>1, <3>2, LoadKeepsSamples
      <3> QED BY <2>1, <3>1, <3>2
    <2>3. CompanyInv'
      BY <1>1, <1>2, <1>6, <2>1 DEF CompanyInv, NoStep, EndProfile
    <2>4. Stamped(completed')
      BY <2>1, OneFacts DEF Stamped
    <2>5. SamplesInv'
      BY <1>1, <2>2, <2>4 DEF SamplesInv, Stamped, HonestAll, IsSeq, Honest, NoFile
    <2> QED BY <2>3, <2>5 DEF FitInv
  <1> QED BY <1>3, <1>4, <1>5, <1>6

\* The state on disk is the state of some moment, of this server or of one
\* before it.
LEMMA StateKeepsFit ==
    ASSUME FitInv,
           \/ SaveState \/ Shutdown \/ (\E k \in options.kinds : AddRequest(k))
           \/ UNCHANGED vars
    PROVE  FitInv'
  <1>1. /\ CompanyInv /\ SamplesInv
        /\ UNCHANGED <<setup, due, stage, step, options, ring, completed, tracker, dirty>>
        /\ file' = file \/ file' = Export
    BY DEF FitInv, SaveState, Shutdown, AddRequest, SaveOnce, vars, step_vars,
           launch_vars, profile_vars, model_vars, cycle_vars
  <1>2. CompanyInv'
    BY <1>1 DEF CompanyInv, Pending, Ranks, NoStep
  <1>3. file' # NoFile => HonestAll(file'.tracker) /\ file'.dirty \subseteq {"decode_bwd"}
    BY <1>1 DEF SamplesInv, Export
  <1>4. SamplesInv'
    BY <1>1, <1>3 DEF SamplesInv, Stamped, HonestAll, IsSeq, Honest, NoFile
  <1> QED BY <1>2, <1>4 DEF FitInv

\* A sample that had company is stamped, and nothing but the contended decode
\* is fitted from it.
LEMMA FitInvariant == Spec => []FitInv
  <1>1. Init => FitInv
    <2> SUFFICES ASSUME Init PROVE FitInv
      OBVIOUS
    <2>1. /\ stage = "setup" /\ step = NoStep /\ ring = <<>> /\ completed = <<>>
          /\ tracker = <<>> /\ dirty = {} /\ file = NoFile
      BY DEF Init
    <2>2. ~Pending
      BY DEF Init, InitFor, Pending, Ranks
    <2>3. options \in Options
      BY StepAssumption DEF Init
    <2> QED BY <2>1, <2>2, <2>3, OneFacts
            DEF FitInv, CompanyInv, SamplesInv, Stamped, HonestAll
  <1>2. TalkInv /\ FitInv /\ [Next]_vars => FitInv'
    <2> SUFFICES ASSUME TalkType, FitInv, [Next]_vars PROVE FitInv'
      BY DEF TalkInv
    <2>1. CASE LaunchNext /\ UNCHANGED step_vars
      BY <2>1, LaunchKeepsFit
    <2>2. CASE BeforeBusyLoop \/ ProfilingStep \/ EndShape \/ EndProfile
      BY <2>2, PassKeepsFit
    <2>3. CASE Schedule \/ Execute
      BY <2>3, ScheduleKeepsFit, ExecuteKeepsFit
    <2>4. CASE \/ SaveState \/ Shutdown \/ (\E k \in options.kinds : AddRequest(k))
               \/ UNCHANGED vars
      BY <2>4, StateKeepsFit
    <2>5. CASE Relaunch
      <3>1. /\ stage' = "setup" /\ step' = NoStep /\ ring' = <<>> /\ completed' = <<>>
            /\ tracker' = <<>> /\ dirty' = {} /\ file' = file /\ options' = options
            /\ setup' = setup /\ due' = [r \in Ranks |-> FALSE]
        BY <2>5 DEF Relaunch, Restart
      <3>2. ~Pending'
        BY <3>1 DEF Pending, Ranks
      <3>3. Stamped(<<>>) /\ HonestAll(<<>>)
        BY OneFacts DEF Stamped, HonestAll
      <3>4. CompanyInv'
        BY <3>1, <3>2 DEF CompanyInv, NoStep
      <3>5. Stamped(ring') /\ Stamped(completed') /\ HonestAll(tracker')
        BY <3>1, <3>3
      <3>6. SamplesInv'
        BY <3>1, <3>5 DEF FitInv, SamplesInv, Stamped, HonestAll, IsSeq, Honest, NoFile
      <3> QED BY <3>4, <3>6 DEF FitInv
    <2> QED BY <2>1, <2>2, <2>3, <2>4, <2>5 DEF Next
  <1> QED BY <1>1, <1>2, TalkInvariant, PTL DEF Spec

\* No prediction but that of a decode beside the backward rests on steps that
\* ran beside it, for every size of the ring and the tracker, every rhythm of
\* the refits and every number of launches from a saved state.
THEOREM FitsStayClean == Spec => []FitsClean
  <1>1. FitInv => FitsClean
    BY NobodyBorrowsContended DEF FitInv, SamplesInv, FitsClean
  <1> QED BY <1>1, FitInvariant, PTL

-----------------------------------------------------------------------------
(***************************************************************************)
(* Sums.  SumFunctionOnSet adds the values of a function over a finite     *)
(* set, in an order nobody knows; the lemmas say that it does not matter.  *)
(***************************************************************************)
Pick(s) == CHOOSE x \in s : TRUE
SumStep(f, g, s) == IF s = {} THEN 0 ELSE f[Pick(s)] + g[s \ {Pick(s)}]
IsSum(f, S, g) == g = [s \in SUBSET S |-> SumStep(f, g, s)]

\* Induction over the subsets of a finite set: what holds of a set whenever it
\* holds of its proper subsets holds of all of them.
LEMMA SubsetInduction ==
  ASSUME NEW S, IsFiniteSet(S), NEW Good,
         \A T \in SUBSET S :
            (\A U \in SUBSET T : U # T => U \in Good) => T \in Good
  PROVE  SUBSET S \subseteq Good
<1> DEFINE R == StrictSubsetOrdering(S)
           F == FiniteSubsetsOf(S)
           Bad == (SUBSET S) \ Good
<1> SUFFICES ASSUME Bad # {} PROVE FALSE
  OBVIOUS
<1>1. IsWellFoundedOn(R, F)
  BY FS_StrictSubsetOrderingWellFounded
<1>2. Bad \subseteq F
  <2>1. \A T \in SUBSET S : IsFiniteSet(T)
    BY FS_Subset
  <2> QED BY <2>1 DEF FiniteSubsetsOf
<1>3. \A T, U \in SUBSET S : U \subseteq T /\ U # T => <<U, T>> \in R
  BY DEF StrictSubsetOrdering
<1> HIDE DEF R, F, Bad
<1>4. PICK T \in Bad : \A U \in Bad : ~(<<U, T>> \in R)
  BY <1>1, <1>2, WFMin
<1>5. T \in SUBSET S /\ T \notin Good
  BY <1>4 DEF Bad
<1>6. ASSUME NEW U \in SUBSET T, U # T PROVE U \in Good
  <2>1. U \in SUBSET S /\ <<U, T>> \in R
    BY <1>3, <1>5, <1>6
  <2> QED BY <1>4, <2>1 DEF Bad
<1> QED BY <1>5, <1>6

\* What the fold of the community modules computes.
LEMMA SumUnfold ==
  ASSUME NEW f, NEW S
  PROVE  SumFunctionOnSet(f, S) = (CHOOSE g : IsSum(f, S, g))[S]
  BY DEF SumFunctionOnSet, FoldFunctionOnSet, MapThenFoldSet, IsSum, SumStep,
         Pick

\* One step of it.
LEMMA SumAt ==
  ASSUME NEW f, NEW S, NEW g, IsSum(f, S, g), NEW s \in SUBSET S
  PROVE  /\ s = {} => g[s] = 0
         /\ s # {} => /\ Pick(s) \in s
                      /\ g[s] = f[Pick(s)] + g[s \ {Pick(s)}]
<1>1. g[s] = SumStep(f, g, s)
  BY DEF IsSum
<1> QED BY <1>1 DEF SumStep, Pick

\* Two computations agree on the sets both go through.
LEMMA SumAgree ==
  ASSUME NEW f, NEW S, NEW g, IsSum(f, S, g), NEW R, NEW h, IsSum(f, R, h),
         NEW s, IsFiniteSet(s), s \subseteq S, s \subseteq R
  PROVE  g[s] = h[s]
<1> DEFINE Good == {t \in SUBSET s : g[t] = h[t]}
<1>1. ASSUME NEW T \in SUBSET s, \A U \in SUBSET T : U # T => U \in Good
      PROVE  T \in Good
  <2>1. CASE T = {}
    BY <2>1, SumAt
  <2>2. CASE T # {}
    <3>1. /\ Pick(T) \in T
          /\ g[T] = f[Pick(T)] + g[T \ {Pick(T)}]
          /\ h[T] = f[Pick(T)] + h[T \ {Pick(T)}]
      BY <2>2, SumAt
    <3>2. T \ {Pick(T)} \in SUBSET T /\ T \ {Pick(T)} # T
      BY <3>1
    <3>3. g[T \ {Pick(T)}] = h[T \ {Pick(T)}]
      BY <1>1, <3>2
    <3> QED BY <3>1, <3>3
  <2> QED BY <2>1, <2>2
<1> HIDE DEF Good
<1>2. SUBSET s \subseteq Good
  BY <1>1, SubsetInduction
<1>3. s \in Good
  BY <1>2
<1> QED BY <1>3 DEF Good

\* The fold has a value.
LEMMA SumExists ==
  ASSUME NEW f, NEW S, IsFiniteSet(S)
  PROVE  \E g : IsSum(f, S, g)
<1> DEFINE Good == {s \in SUBSET S : \E g : IsSum(f, s, g)}
           G(s) == CHOOSE g : IsSum(f, s, g)
<1>1. ASSUME NEW T \in SUBSET S, \A U \in SUBSET T : U # T => U \in Good
      PROVE  T \in Good
  <2> DEFINE V(s) == G(s)[s]
             h == [s \in SUBSET T |->
                     IF s # T THEN V(s)
                     ELSE IF T = {} THEN 0 ELSE f[Pick(T)] + V(T \ {Pick(T)})]
  <2>1. \A U \in SUBSET T : U # T => IsSum(f, U, G(U)) /\ IsFiniteSet(U)
    <3>1. \A U \in SUBSET T : U # T => IsSum(f, U, G(U))
      BY <1>1
    <3>2. \A U \in SUBSET T : IsFiniteSet(U)
      BY FS_Subset
    <3> QED BY <3>1, <3>2
  <2> HIDE DEF G, Good
  <2>2. ASSUME NEW s \in SUBSET T PROVE h[s] = SumStep(f, h, s)
    <3>1. CASE s # T
      <4>1. h[s] = V(s) /\ IsSum(f, s, G(s))
        BY <2>1, <3>1
      <4>2. CASE s = {}
        <5>1. V(s) = 0
          BY <4>1, <4>2, SumAt
        <5> QED BY <4>1, <4>2, <5>1 DEF SumStep
      <4>3. CASE s # {}
        <5> DEFINE r == s \ {Pick(s)}
        <5>1. /\ Pick(s) \in s
              /\ V(s) = f[Pick(s)] + G(s)[r]
          BY <4>1, <4>3, SumAt
        <5>2. r \in SUBSET T /\ r # T /\ r \subseteq s
          BY <5>1
        <5>3. h[r] = V(r) /\ IsSum(f, r, G(r)) /\ IsFiniteSet(r)
          BY <2>1, <5>2
        <5> HIDE DEF r
        <5>4. G(s)[r] = G(r)[r]
          BY <4>1, <5>2, <5>3, SumAgree
        <5>5. SumStep(f, h, s) = f[Pick(s)] + h[r]
          BY <4>3 DEF SumStep, r
        <5> QED BY <4>1, <5>1, <5>3, <5>4, <5>5
      <4> QED BY <4>2, <4>3
    <3>2. CASE s = T
      <4>1. CASE T = {}
        BY <3>2, <4>1 DEF SumStep
      <4>2. CASE T # {}
        <5>1. Pick(T) \in T
          BY <4>2 DEF Pick
        <5>2. T \ {Pick(T)} \in SUBSET T /\ T \ {Pick(T)} # T
          BY <5>1
        <5>3. h[T \ {Pick(T)}] = V(T \ {Pick(T)})
          BY <5>2
        <5>4. h[s] = f[Pick(T)] + V(T \ {Pick(T)})
          BY <3>2, <4>2
        <5> QED BY <3>2, <4>2, <5>3, <5>4 DEF SumStep
      <4> QED BY <4>1, <4>2
    <3> QED BY <3>1, <3>2
  <2>3. IsSum(f, T, h)
    <3>1. h = [s \in SUBSET T |-> h[s]]
      OBVIOUS
    <3> HIDE DEF h
    <3> QED BY <2>2, <3>1 DEF IsSum
  <2> HIDE DEF h
  <2> QED BY <2>3 DEF Good
<1> HIDE DEF Good
<1>2. S \in Good
  <2>1. SUBSET S \subseteq Good
    BY <1>1, SubsetInduction
  <2> QED BY <2>1
<1> QED BY <1>2 DEF Good

\* The sum over the empty set, and over another one by the element the fold
\* happens to pick.
LEMMA SumRec ==
  ASSUME NEW f, NEW S, IsFiniteSet(S)
  PROVE  /\ S = {} => SumFunctionOnSet(f, S) = 0
         /\ S # {} => /\ Pick(S) \in S
                      /\ SumFunctionOnSet(f, S)
                           = f[Pick(S)] + SumFunctionOnSet(f, S \ {Pick(S)})
<1> DEFINE G(s) == CHOOSE g : IsSum(f, s, g)
           r == S \ {Pick(S)}
<1>1. r \subseteq S /\ IsFiniteSet(r)
  BY FS_Subset
<1>2. IsSum(f, S, G(S)) /\ IsSum(f, r, G(r))
  BY <1>1, SumExists
<1>3. /\ SumFunctionOnSet(f, S) = G(S)[S]
      /\ SumFunctionOnSet(f, r) = G(r)[r]
  BY SumUnfold
<1> HIDE DEF G
<1>4. G(S)[r] = G(r)[r]
  BY <1>1, <1>2, SumAgree
<1>5. /\ S = {} => G(S)[S] = 0
      /\ S # {} => Pick(S) \in S /\ G(S)[S] = f[Pick(S)] + G(S)[r]
  BY <1>2, SumAt, SMTT(30)
<1> QED BY <1>3, <1>4, <1>5

\* A sum of naturals is a natural.
LEMMA SumNat ==
  ASSUME NEW f, NEW S, IsFiniteSet(S), \A x \in S : f[x] \in Nat
  PROVE  SumFunctionOnSet(f, S) \in Nat
<1> DEFINE Good == {s \in SUBSET S : SumFunctionOnSet(f, s) \in Nat}
<1>1. ASSUME NEW T \in SUBSET S, \A U \in SUBSET T : U # T => U \in Good
      PROVE  T \in Good
  <2>1. IsFiniteSet(T)
    BY FS_Subset
  <2>2. CASE T = {}
    <3>1. SumFunctionOnSet(f, T) = 0
      BY <2>1, <2>2, SumRec
    <3> QED BY <3>1
  <2>3. CASE T # {}
    <3> DEFINE r == T \ {Pick(T)}
    <3>1. /\ Pick(T) \in T
          /\ SumFunctionOnSet(f, T) = f[Pick(T)] + SumFunctionOnSet(f, r)
      BY <2>1, <2>3, SumRec
    <3>2. r \in SUBSET T /\ r # T
      BY <3>1
    <3>3. SumFunctionOnSet(f, r) \in Nat
      BY <1>1, <3>2
    <3> HIDE DEF r
    <3> QED BY <3>1, <3>3
  <2> QED BY <2>2, <2>3
<1> HIDE DEF Good
<1>2. S \in Good
  <2>1. SUBSET S \subseteq Good
    BY <1>1, SubsetInduction
  <2> QED BY <2>1
<1> QED BY <1>2 DEF Good

\* The order does not matter: any element may be added first.
LEMMA SumRemove ==
  ASSUME NEW f, NEW S, IsFiniteSet(S), \A x \in S : f[x] \in Nat
  PROVE  \A x \in S : SumFunctionOnSet(f, S)
                        = f[x] + SumFunctionOnSet(f, S \ {x})
<1> DEFINE Good == {s \in SUBSET S :
                      \A x \in s : SumFunctionOnSet(f, s)
                                     = f[x] + SumFunctionOnSet(f, s \ {x})}
<1>1. ASSUME NEW T \in SUBSET S, \A U \in SUBSET T : U # T => U \in Good
      PROVE  T \in Good
  <2>1. IsFiniteSet(T)
    BY FS_Subset
  <2> SUFFICES ASSUME NEW x \in T
               PROVE  SumFunctionOnSet(f, T)
                        = f[x] + SumFunctionOnSet(f, T \ {x})
    OBVIOUS
  <2> DEFINE p == Pick(T)
             A == T \ {p}
             B == T \ {x}
             N == A \ {x}
  <2>2. /\ p \in T
        /\ SumFunctionOnSet(f, T) = f[p] + SumFunctionOnSet(f, A)
    BY <2>1, SumRec
  <2> HIDE DEF p
  <2>3. CASE p = x
    BY <2>2, <2>3
  <2>4. CASE p # x
    <3>1. /\ A \in SUBSET T /\ A # T /\ x \in A
          /\ B \in SUBSET T /\ B # T /\ p \in B
          /\ B \ {p} = N
      BY <2>2, <2>4
    <3>2. A \in Good /\ B \in Good
      BY <1>1, <3>1
    <3>3. SumFunctionOnSet(f, A) = f[x] + SumFunctionOnSet(f, N)
      BY <3>1, <3>2
    <3>4. SumFunctionOnSet(f, B) = f[p] + SumFunctionOnSet(f, N)
      BY <3>1, <3>2
    <3>5. SumFunctionOnSet(f, N) \in Nat
      <4>1. N \in SUBSET T /\ N \in SUBSET S
        OBVIOUS
      <4>2. IsFiniteSet(N)
        BY <4>1, FS_Subset
      <4> QED BY <4>1, <4>2, SumNat
    <3>6. f[p] \in Nat /\ f[x] \in Nat
      BY <2>2
    <3> HIDE DEF A, B, N
    <3> QED BY <2>2, <3>3, <3>4, <3>5, <3>6 DEF B
  <2> QED BY <2>3, <2>4
<1> HIDE DEF Good
<1>2. S \in Good
  <2>1. SUBSET S \subseteq Good
    BY <1>1, SubsetInduction
  <2> QED BY <2>1
<1> QED BY <1>2 DEF Good

\* The sum looks at the values on the set only.
LEMMA SumSame ==
  ASSUME NEW f, NEW g, NEW S, IsFiniteSet(S), \A x \in S : f[x] = g[x]
  PROVE  SumFunctionOnSet(f, S) = SumFunctionOnSet(g, S)
<1> DEFINE Good == {s \in SUBSET S :
                      SumFunctionOnSet(f, s) = SumFunctionOnSet(g, s)}
<1>1. ASSUME NEW T \in SUBSET S, \A U \in SUBSET T : U # T => U \in Good
      PROVE  T \in Good
  <2>1. IsFiniteSet(T)
    BY FS_Subset
  <2>2. CASE T = {}
    BY <2>1, <2>2, SumRec
  <2>3. CASE T # {}
    <3> DEFINE r == T \ {Pick(T)}
    <3>1. /\ Pick(T) \in T
          /\ SumFunctionOnSet(f, T) = f[Pick(T)] + SumFunctionOnSet(f, r)
          /\ SumFunctionOnSet(g, T) = g[Pick(T)] + SumFunctionOnSet(g, r)
      BY <2>1, <2>3, SumRec
    <3>2. r \in SUBSET T /\ r # T
      BY <3>1
    <3>3. SumFunctionOnSet(f, r) = SumFunctionOnSet(g, r)
      BY <1>1, <3>2
    <3> HIDE DEF r
    <3> QED BY <3>1, <3>3
  <2> QED BY <2>2, <2>3
<1> HIDE DEF Good
<1>2. S \in Good
  <2>1. SUBSET S \subseteq Good
    BY <1>1, SubsetInduction
  <2> QED BY <2>1
<1> QED BY <1>2 DEF Good

\* Rows are counted in order: the first i of them are the first i - 1 and one
\* more.
LEMMA SumPrefix ==
  ASSUME NEW f, NEW i \in Nat \ {0}, \A j \in 1 .. i : f[j] \in Nat
  PROVE  /\ SumFunctionOnSet(f, 1 .. i) = SumFunctionOnSet(f, 1 .. i - 1) + f[i]
         /\ SumFunctionOnSet(f, 1 .. i) \in Nat
         /\ SumFunctionOnSet(f, 1 .. i - 1) \in Nat
<1>1. /\ IsFiniteSet(1 .. i) /\ IsFiniteSet(1 .. i - 1)
  BY FS_Interval
<1>2. (1 .. i) \ {i} = 1 .. i - 1 /\ i \in 1 .. i
  OBVIOUS
<1>3. /\ SumFunctionOnSet(f, 1 .. i) \in Nat
      /\ SumFunctionOnSet(f, 1 .. i - 1) \in Nat
  BY <1>1, SumNat
<1>4. SumFunctionOnSet(f, 1 .. i) = f[i] + SumFunctionOnSet(f, (1 .. i) \ {i})
  BY <1>1, <1>2, SumRemove
<1>5. f[i] \in Nat
  BY <1>2
<1>6. SumFunctionOnSet(f, 1 .. i) = f[i] + SumFunctionOnSet(f, 1 .. i - 1)
  BY <1>2, <1>4
<1> QED BY <1>3, <1>5, <1>6

-----------------------------------------------------------------------------
(***************************************************************************)
(* Induction over the naturals, and the least of some of them.             *)
(***************************************************************************)
\* Every set of naturals that is not empty has a least element.
LEMMA LeastNatural ==
  ASSUME NEW T \in SUBSET Nat, T # {}
  PROVE  \E x \in T : \A y \in T : x <= y
<1> DEFINE R == OpToRel(<, Nat)
<1>1. IsWellFoundedOn(R, Nat)
  BY NatLessThanWellFounded
<1>2. \A x, y \in Nat : x < y => <<x, y>> \in R
  BY DEF OpToRel
<1> HIDE DEF R
<1>3. PICK x \in T : \A y \in T : ~(<<y, x>> \in R)
  BY <1>1, WFMin
<1>4. \A y \in T : ~(y < x)
  BY <1>2, <1>3
<1> QED BY <1>3, <1>4

\* A set that has m and, with n, n + 1, has every natural from m on.
LEMMA Upward ==
  ASSUME NEW m \in Nat, NEW T, m \in T,
         \A n \in Nat : m <= n /\ n \in T => n + 1 \in T
  PROVE  \A n \in Nat : m <= n => n \in T
<1> DEFINE Bad == {n \in Nat : m <= n /\ n \notin T}
<1> SUFFICES ASSUME Bad # {} PROVE FALSE
  OBVIOUS
<1>1. Bad \in SUBSET Nat
  OBVIOUS
<1> HIDE DEF Bad
<1>2. PICK x \in Bad : \A y \in Bad : x <= y
  BY <1>1, LeastNatural
<1>3. x \in Nat /\ m <= x /\ x \notin T
  BY <1>2 DEF Bad
<1>4. x - 1 \in Nat /\ m <= x - 1 /\ (x - 1) + 1 = x
  BY <1>3
<1>5. x - 1 \notin T
  BY <1>3, <1>4
<1>6. x - 1 \in Bad
  BY <1>4, <1>5 DEF Bad
<1>7. ~(x <= x - 1)
  BY <1>3
<1> QED BY <1>2, <1>6, <1>7

-----------------------------------------------------------------------------
(***************************************************************************)
(* More of sums: parts, images and bounds.                                 *)
(***************************************************************************)
\* A sum is that of a part and that of the rest.
LEMMA SumSplit ==
  ASSUME NEW f, NEW S, IsFiniteSet(S), \A x \in S : f[x] \in Nat, NEW T \in SUBSET S
  PROVE  /\ SumFunctionOnSet(f, S) = SumFunctionOnSet(f, T) + SumFunctionOnSet(f, S \ T)
         /\ SumFunctionOnSet(f, S) \in Nat /\ SumFunctionOnSet(f, T) \in Nat
         /\ SumFunctionOnSet(f, S \ T) \in Nat
<1> DEFINE Good == {s \in SUBSET S :
             SumFunctionOnSet(f, s) = SumFunctionOnSet(f, T \cap s) + SumFunctionOnSet(f, s \ T)}
<1>0. ASSUME NEW U \in SUBSET S PROVE IsFiniteSet(U) /\ SumFunctionOnSet(f, U) \in Nat
  <2>1. IsFiniteSet(U)
    BY FS_Subset
  <2> QED BY <2>1, SumNat
<1>1. ASSUME NEW W \in SUBSET S, \A U \in SUBSET W : U # W => U \in Good
      PROVE  W \in Good
  <2>1. CASE W = {}
    <3>1. SumFunctionOnSet(f, {}) = 0
      BY FS_EmptySet, SumRec
    <3>2. T \cap W = {} /\ W \ T = {}
      BY <2>1
    <3>3. SumFunctionOnSet(f, W) = SumFunctionOnSet(f, T \cap W) + SumFunctionOnSet(f, W \ T)
      BY <2>1, <3>1, <3>2
    <3> QED BY <3>3
  <2>2. CASE W # {}
    <3>1. PICK x \in W : TRUE
      BY <2>2
    <3> DEFINE r == W \ {x}
    <3>2. r \in SUBSET W /\ r # W /\ r \in SUBSET S /\ x \in S
      BY <3>1
    <3>3. SumFunctionOnSet(f, r) = SumFunctionOnSet(f, T \cap r) + SumFunctionOnSet(f, r \ T)
      BY <1>1, <3>2
    <3>4. SumFunctionOnSet(f, W) = f[x] + SumFunctionOnSet(f, r)
      BY <1>0, <3>1, SumRemove
    <3>5. /\ f[x] \in Nat
          /\ SumFunctionOnSet(f, T \cap r) \in Nat /\ SumFunctionOnSet(f, r \ T) \in Nat
      BY <1>0, <3>2
    <3>6. CASE x \in T
      <4>1. (T \cap W) \ {x} = T \cap r /\ W \ T = r \ T /\ x \in T \cap W
        BY <3>1, <3>6
      <4>2. SumFunctionOnSet(f, T \cap W) = f[x] + SumFunctionOnSet(f, (T \cap W) \ {x})
        BY <1>0, <4>1, SumRemove
      <4> HIDE DEF r
      <4>3. SumFunctionOnSet(f, W) = SumFunctionOnSet(f, T \cap W) + SumFunctionOnSet(f, W \ T)
        BY <3>3, <3>4, <3>5, <4>1, <4>2, SMTT(30)
      <4> QED BY <4>3
    <3>7. CASE x \notin T
      <4>1. T \cap W = T \cap r /\ (W \ T) \ {x} = r \ T /\ x \in W \ T
        BY <3>1, <3>7
      <4>2. SumFunctionOnSet(f, W \ T) = f[x] + SumFunctionOnSet(f, (W \ T) \ {x})
        BY <1>0, <4>1, SumRemove
      <4> HIDE DEF r
      <4>3. SumFunctionOnSet(f, W) = SumFunctionOnSet(f, T \cap W) + SumFunctionOnSet(f, W \ T)
        BY <3>3, <3>4, <3>5, <4>1, <4>2, SMTT(30)
      <4> QED BY <4>3
    <3> QED BY <3>6, <3>7
  <2> QED BY <2>1, <2>2
<1>2. SUBSET S \subseteq Good
  <2> HIDE DEF Good
  <2> QED BY <1>1, SubsetInduction
<1>3. S \in Good
  <2> HIDE DEF Good
  <2> QED BY <1>2
<1>4. T \cap S = T
  OBVIOUS
<1>5. SumFunctionOnSet(f, S) = SumFunctionOnSet(f, T) + SumFunctionOnSet(f, S \ T)
  BY <1>3, <1>4
<1>6. S \in SUBSET S /\ S \ T \in SUBSET S
  OBVIOUS
<1> QED BY <1>0, <1>5, <1>6

\* A sum over the places of a set is one over what stands there, each once.
LEMMA SumImage ==
  ASSUME NEW I, IsFiniteSet(I), NEW e, \A i, j \in I : e[i] = e[j] => i = j,
         NEW f, NEW g, \A i \in I : f[i] = g[e[i]] /\ f[i] \in Nat
  PROVE  /\ IsFiniteSet({e[i] : i \in I})
         /\ SumFunctionOnSet(f, I) = SumFunctionOnSet(g, {e[i] : i \in I})
<1> DEFINE Im(J) == {e[i] : i \in J}
           Good == {J \in SUBSET I : /\ IsFiniteSet(Im(J))
                                     /\ SumFunctionOnSet(f, J) = SumFunctionOnSet(g, Im(J))}
<1>1. ASSUME NEW J \in SUBSET I, \A U \in SUBSET J : U # J => U \in Good
      PROVE  J \in Good
  <2>1. CASE J = {}
    <3>1. Im(J) = {}
      BY <2>1
    <3> HIDE DEF Im
    <3>2. IsFiniteSet(Im(J)) /\ SumFunctionOnSet(f, J) = 0 /\ SumFunctionOnSet(g, Im(J)) = 0
      BY <2>1, <3>1, FS_EmptySet, SumRec
    <3> QED BY <3>2
  <2>2. CASE J # {}
    <3>1. PICK x \in J : TRUE
      BY <2>2
    <3> DEFINE r == J \ {x}
    <3>2. r \in SUBSET J /\ r # J /\ x \in I
      BY <3>1
    <3>3. IsFiniteSet(Im(r)) /\ SumFunctionOnSet(f, r) = SumFunctionOnSet(g, Im(r))
      BY <1>1, <3>2
    <3>4. Im(J) = Im(r) \cup {e[x]} /\ e[x] \notin Im(r) /\ e[x] \in Im(J)
      BY <3>1
    <3>5. IsFiniteSet(J) /\ (\A i \in J : f[i] \in Nat)
      BY FS_Subset
    <3>6. SumFunctionOnSet(f, J) = f[x] + SumFunctionOnSet(f, r)
      BY <3>1, <3>5, SumRemove
    <3>7. \A y \in Im(J) : g[y] \in Nat
      OBVIOUS
    <3> HIDE DEF Im, r
    <3>8. IsFiniteSet(Im(J)) /\ Im(J) \ {e[x]} = Im(r)
      BY <3>3, <3>4, FS_AddElement
    <3>9. SumFunctionOnSet(g, Im(J)) = g[e[x]] + SumFunctionOnSet(g, Im(r))
      BY <3>4, <3>7, <3>8, SumRemove
    <3>10. SumFunctionOnSet(f, J) = SumFunctionOnSet(g, Im(J))
      BY <3>1, <3>2, <3>3, <3>6, <3>9
    <3> QED BY <3>8, <3>10
  <2> QED BY <2>1, <2>2
<1>2. SUBSET I \subseteq Good
  <2> HIDE DEF Good
  <2> QED BY <1>1, SubsetInduction
<1>3. I \in Good
  <2> HIDE DEF Good
  <2> QED BY <1>2
<1> QED BY <1>3

\* Ones add up to their number, zeros to nothing.
LEMMA SumConstant ==
  ASSUME NEW f, NEW S, IsFiniteSet(S), NEW c \in {0, 1}, \A x \in S : f[x] = c
  PROVE  SumFunctionOnSet(f, S) = IF c = 1 THEN Cardinality(S) ELSE 0
<1> DEFINE N(T) == IF c = 1 THEN Cardinality(T) ELSE 0
           Good == {T \in SUBSET S : SumFunctionOnSet(f, T) = N(T)}
<1>1. ASSUME NEW T \in SUBSET S, \A U \in SUBSET T : U # T => U \in Good
      PROVE  T \in Good
  <2>0. IsFiniteSet(T)
    BY FS_Subset
  <2>1. CASE T = {}
    <3>1. SumFunctionOnSet(f, {}) = 0 /\ Cardinality({}) = 0
      BY FS_EmptySet, SumRec
    <3> QED BY <2>1, <3>1
  <2>2. CASE T # {}
    <3> DEFINE r == T \ {Pick(T)}
    <3>1. Pick(T) \in T /\ SumFunctionOnSet(f, T) = f[Pick(T)] + SumFunctionOnSet(f, r)
      BY <2>0, <2>2, SumRec
    <3>2. /\ SumFunctionOnSet(f, r) = N(r) /\ f[Pick(T)] = c
      <4>1. r \in SUBSET T /\ r # T
        BY <3>1
      <4> QED BY <1>1, <3>1, <4>1
    <3>3. Cardinality(r) = Cardinality(T) - 1 /\ Cardinality(T) \in Nat
      BY <2>0, <3>1, FS_RemoveElement, FS_CardinalityType
    <3>4. SumFunctionOnSet(f, T) = N(T)
      <4> HIDE DEF r
      <4> QED BY <3>1, <3>2, <3>3
    <3> QED BY <3>4
  <2> QED BY <2>1, <2>2
<1>2. SUBSET S \subseteq Good
  <2> HIDE DEF Good
  <2> QED BY <1>1, SubsetInduction
<1>3. S \in Good
  <2> HIDE DEF Good
  <2> QED BY <1>2
<1> QED BY <1>3

-----------------------------------------------------------------------------
(***************************************************************************)
(* A set in the order of a number each of its elements has.                *)
(***************************************************************************)
Below(T, f, x) == {y \in T : f[y] < f[x]}
NthOf(T, f, i) == CHOOSE x \in T : Cardinality(Below(T, f, x)) = i - 1

\* The last of a finite set.
LEMMA LastExists ==
  ASSUME NEW T, IsFiniteSet(T), T # {}, NEW f, \A x \in T : f[x] \in Nat
  PROVE  \E x \in T : \A y \in T : f[y] <= f[x]
<1> DEFINE Good == {U \in SUBSET T : U # {} => \E x \in U : \A y \in U : f[y] <= f[x]}
<1>1. ASSUME NEW W \in SUBSET T, \A U \in SUBSET W : U # W => U \in Good
      PROVE  W \in Good
  <2> SUFFICES ASSUME W # {} PROVE \E x \in W : \A y \in W : f[y] <= f[x]
    OBVIOUS
  <2>1. PICK z \in W : TRUE
    OBVIOUS
  <2>2. CASE W = {z}
    <3>1. f[z] \in Nat /\ \A y \in W : y = z
      BY <2>1, <2>2
    <3>2. \A y \in W : f[y] <= f[z]
      BY <3>1
    <3> QED BY <2>1, <3>2
  <2>3. CASE W # {z}
    <3>1. W \ {z} \in SUBSET W /\ W \ {z} # W /\ W \ {z} # {}
      BY <2>1, <2>3
    <3>2. PICK x \in W \ {z} : \A y \in W \ {z} : f[y] <= f[x]
      BY <1>1, <3>1
    <3>3. f[x] \in Nat /\ f[z] \in Nat
      BY <2>1
    <3>4. \A y \in W : f[y] \in Nat /\ (y = z \/ f[y] <= f[x])
      BY <3>2
    <3>5. CASE f[z] <= f[x]
      BY <3>4, <3>5
    <3>6. CASE f[x] <= f[z]
      <4>1. \A y \in W : f[y] <= f[z]
        BY <3>3, <3>4, <3>6
      <4> QED BY <2>1, <4>1
    <3> QED BY <3>3, <3>5, <3>6
  <2> QED BY <2>2, <2>3
<1>2. SUBSET T \subseteq Good
  <2> HIDE DEF Good
  <2> QED BY <1>1, SubsetInduction
<1>3. T \in Good
  <2> HIDE DEF Good
  <2> QED BY <1>2
<1> QED BY <1>3

\* There is one for every place, and each has its own.
LEMMA EveryPlace ==
  ASSUME NEW T, IsFiniteSet(T), NEW f, \A x \in T : f[x] \in Nat,
         \A x, y \in T : f[x] = f[y] => x = y
  PROVE  /\ Cardinality(T) \in Nat
         /\ \A i \in 1 .. Cardinality(T) :
               /\ NthOf(T, f, i) \in T
               /\ Cardinality(Below(T, f, NthOf(T, f, i))) = i - 1
<1> DEFINE Placed(U) == \A i \in 1 .. Cardinality(U) :
                           \E x \in U : Cardinality(Below(U, f, x)) = i - 1
           Good == {U \in SUBSET T : Placed(U)}
<1>1. ASSUME NEW W \in SUBSET T, \A U \in SUBSET W : U # W => U \in Good
      PROVE  W \in Good
  <2>1. IsFiniteSet(W) /\ Cardinality(W) \in Nat
    BY FS_Subset, FS_CardinalityType
  <2>2. CASE W = {}
    <3>1. Cardinality(W) = 0
      BY <2>2, FS_EmptySet
    <3> QED BY <3>1
  <2>3. CASE W # {}
    <3>1. PICK m \in W : \A y \in W : f[y] <= f[m]
      BY <2>1, <2>3, LastExists
    <3> DEFINE r == W \ {m}
    <3>2. /\ r \in SUBSET W /\ r # W
          /\ Cardinality(r) = Cardinality(W) - 1
      BY <2>1, <3>1, FS_RemoveElement
    <3>3. Placed(r)
      BY <1>1, <3>2
    <3>4. Below(W, f, m) = r
      <4>1. \A y \in W : f[y] \in Nat /\ (f[y] = f[m] => y = m)
        BY <3>1
      <4> QED BY <3>1, <4>1 DEF Below
    <3>5. \A x \in r : Below(W, f, x) = Below(r, f, x)
      <4>1. \A x \in r : f[x] \in Nat /\ f[m] \in Nat /\ f[x] <= f[m]
        BY <3>1
      <4>2. \A x \in r : ~(f[m] < f[x])
        BY <4>1
      <4> QED BY <4>2 DEF Below
    <3>6. ASSUME NEW i \in 1 .. Cardinality(W)
          PROVE  \E x \in W : Cardinality(Below(W, f, x)) = i - 1
      <4>1. CASE i = Cardinality(W)
        BY <3>1, <3>2, <3>4, <4>1
      <4>2. CASE i # Cardinality(W)
        <5>1. i \in 1 .. Cardinality(r)
          BY <2>1, <3>2, <4>2
        <5>2. PICK x \in r : Cardinality(Below(r, f, x)) = i - 1
          BY <3>3, <5>1
        <5> QED BY <3>5, <5>2
      <4> QED BY <4>1, <4>2
    <3> QED BY <3>6
  <2> QED BY <2>2, <2>3
<1>2. SUBSET T \subseteq Good
  <2> HIDE DEF Good
  <2> QED BY <1>1, SubsetInduction
<1>3. T \in Good
  <2> HIDE DEF Good
  <2> QED BY <1>2
<1>4. Placed(T)
  BY <1>3
<1> QED BY <1>4, FS_CardinalityType DEF NthOf

-----------------------------------------------------------------------------
(***************************************************************************)
(* Requests, and what a queue of them is given.                            *)
(***************************************************************************)
ReqFields == {"id", "len", "max", "ft", "computed", "got"}

\* A request as the engine has it: its prompt comes before what it generates,
\* of which one token at most is still to be computed.
ReqOk(q) ==
    /\ DOMAIN q = ReqFields /\ q = [x \in ReqFields |-> q[x]]
    /\ q.len \in Nat \ {0} /\ q.computed \in Nat /\ q.got \in Nat
    /\ q.ft \in BOOLEAN
    /\ Need(q) \in Nat
    /\ q.computed < q.len => q.got = 0
    /\ q.computed >= q.len => Need(q) <= 1

\* Between two steps each has something left; one that waits has run nothing.
Resting(q) == ReqOk(q) /\ Need(q) > 0 /\ ~q.ft /\ q.id # "prof"
Untouched(q) == Resting(q) /\ q.computed = 0

\* What is requested anew.
LEMMA ReqFacts ==
    ASSUME NEW id, NEW len \in Nat \ {0}, NEW max, NEW ft \in BOOLEAN
    PROVE  LET q == Req(id, len, max, ft)
           IN  /\ ReqOk(q) /\ Need(q) = len /\ q.computed = 0
               /\ q.id = id /\ q.len = len /\ q.ft = ft /\ q.max = max
  <1> DEFINE q == Req(id, len, max, ft)
  <1>1. /\ DOMAIN q = ReqFields /\ q.id = id /\ q.len = len /\ q.max = max /\ q.ft = ft
        /\ q.computed = 0 /\ q.got = 0
    BY DEF Req, ReqFields
  <1>2. q = [x \in ReqFields |-> q[x]]
    BY DEF Req, ReqFields
  <1> HIDE DEF q
  <1>3. Need(q) = len
    BY <1>1 DEF Need
  <1> QED BY <1>1, <1>2, <1>3 DEF ReqOk, q

\* A function on the first n numbers is a queue.
LEMMA FunSeq ==
    ASSUME NEW n \in Nat, NEW g, DOMAIN g = 1 .. n, g = [k \in 1 .. n |-> g[k]]
    PROVE  IsSeq(g) /\ Len(g) = n
  <1> DEFINE T == {g[i] : i \in DOMAIN g}
  <1>1. g \in [1 .. n -> T]
    OBVIOUS
  <1>2. g \in Seq(T) /\ Len(g) = n
    <2> HIDE DEF T
    <2>1. g \in UNION {[1 .. m -> T] : m \in Nat}
      BY <1>1
    <2>2. g \in Seq(T)
      BY <2>1, SeqDef
    <2> QED BY <1>1, <2>2, LenProperties
  <1> QED BY <1>2 DEF IsSeq

\* The selection from the first i requests of a queue, for each i up to n.
KeptUpTo(queue, places, n, g) ==
    g = [i \in 0..n |->
            IF i = 0 THEN <<>>
            ELSE IF i \in places THEN Append(g[i - 1], queue[i]) ELSE g[i - 1]]

\* It can be made, however long the queue is.
LEMMA KeptExists ==
    ASSUME NEW queue, NEW places
    PROVE  \A n \in Nat : \E g : KeptUpTo(queue, places, n, g)
  <1> DEFINE T == {n \in Nat : \E g : KeptUpTo(queue, places, n, g)}
  <1>1. 0 \in T
    <2> DEFINE g == [i \in 0 .. 0 |-> <<>>]
    <2>1. KeptUpTo(queue, places, 0, g)
      BY DEF KeptUpTo
    <2> QED BY <2>1
  <1>2. ASSUME NEW n \in Nat, n \in T PROVE n + 1 \in T
    <2>1. PICK g : KeptUpTo(queue, places, n, g)
      BY <1>2
    <2> DEFINE more == IF n + 1 \in places THEN Append(g[n], queue[n + 1]) ELSE g[n]
               h == [i \in 0 .. n + 1 |-> IF i <= n THEN g[i] ELSE more]
               next(i) == IF i = 0 THEN <<>>
                          ELSE IF i \in places THEN Append(h[i - 1], queue[i]) ELSE h[i - 1]
    <2>2. \A i \in 0 .. n : h[i] = g[i] /\ i \in 0 .. n + 1
      OBVIOUS
    <2>3. ASSUME NEW i \in 0 .. n + 1 PROVE h[i] = next(i)
      <3>1. CASE i = n + 1
        <4>1. h[i] = more /\ h[n] = g[n] /\ i - 1 = n /\ i # 0
          BY <2>2, <3>1
        <4> HIDE DEF h
        <4> QED BY <3>1, <4>1
      <3>2. CASE i # n + 1
        <4>1. i \in 0 .. n /\ (i = 0 \/ i - 1 \in 0 .. n)
          BY <3>2
        <4>2. h[i] = g[i] /\ (i # 0 => h[i - 1] = g[i - 1])
          BY <2>2, <4>1
        <4>3. g[i] = IF i = 0 THEN <<>>
                     ELSE IF i \in places THEN Append(g[i - 1], queue[i]) ELSE g[i - 1]
          BY <2>1, <4>1 DEF KeptUpTo
        <4> HIDE DEF h
        <4> QED BY <4>2, <4>3
      <3> QED BY <3>1, <3>2
    <2>4. h = [i \in 0 .. n + 1 |-> h[i]]
      OBVIOUS
    <2> HIDE DEF h
    <2>5. KeptUpTo(queue, places, n + 1, h)
      BY <2>3, <2>4 DEF KeptUpTo
    <2> QED BY <2>5
  <1> HIDE DEF T
  <1>3. \A n \in Nat : 0 <= n => n \in T
    <2>1. \A n \in Nat : 0 <= n /\ n \in T => n + 1 \in T
      BY <1>2
    <2>2. 0 \in Nat
      OBVIOUS
    <2> QED BY <1>1, <2>1, <2>2, Upward
  <1>4. \A n \in Nat : n \in T
    BY <1>3
  <1> QED BY <1>4 DEF T

\* A selection from a queue is a queue of some of its requests.
LEMMA PickedFacts ==
    ASSUME NEW queue, IsSeq(queue), NEW places
    PROVE  LET p == Picked(queue, places)
           IN  /\ IsSeq(p)
               /\ \A k \in DOMAIN p :
                     \E j \in DOMAIN queue : j \in places /\ p[k] = queue[j]
  <1> DEFINE n == Len(queue)
             g == CHOOSE kept : KeptUpTo(queue, places, n, kept)
             Some(s) == \A k \in DOMAIN s : \E j \in 1 .. n : j \in places /\ s[k] = queue[j]
  <1>1. n \in Nat /\ DOMAIN queue = 1 .. n
    BY IsSeqFacts
  <1>2. KeptUpTo(queue, places, n, g)
    BY <1>1, KeptExists
  <1>3. Picked(queue, places) = g[n]
    BY DEF Picked, KeptUpTo
  <1> HIDE DEF g, n
  <1>4. /\ g[0] = <<>>
        /\ \A i \in 1 .. n :
              g[i] = IF i \in places THEN Append(g[i - 1], queue[i]) ELSE g[i - 1]
    <2>1. \A i \in 0 .. n : g[i] = IF i = 0 THEN <<>>
             ELSE IF i \in places THEN Append(g[i - 1], queue[i]) ELSE g[i - 1]
      BY <1>2 DEF KeptUpTo
    <2>2. 0 \in 0 .. n /\ \A i \in 1 .. n : i \in 0 .. n /\ i # 0
      BY <1>1
    <2> QED BY <2>1, <2>2
  <1> DEFINE T == {i \in Nat : i <= n => IsSeq(g[i]) /\ Some(g[i])}
  <1>5. 0 \in T
    <2>1. IsSeq(<<>>) /\ DOMAIN <<>> = {}
      BY DEF IsSeq
    <2> QED BY <1>4, <2>1
  <1>6. ASSUME NEW i \in Nat, i \in T PROVE i + 1 \in T
    <2> SUFFICES ASSUME i + 1 <= n PROVE IsSeq(g[i + 1]) /\ Some(g[i + 1])
      OBVIOUS
    <2>1. /\ i + 1 \in 1 .. n /\ i <= n /\ (i + 1) - 1 = i
      BY <1>1
    <2>2. IsSeq(g[i]) /\ Some(g[i])
      BY <1>6, <2>1
    <2>3. g[i + 1] = IF i + 1 \in places THEN Append(g[i], queue[i + 1]) ELSE g[i]
      BY <1>4, <2>1
    <2>4. CASE i + 1 \in places
      <3> DEFINE a == g[i + 1]
      <3>1. /\ IsSeq(a) /\ Len(a) = Len(g[i]) + 1 /\ a[Len(g[i]) + 1] = queue[i + 1]
            /\ \A j \in 1 .. Len(g[i]) : a[j] = g[i][j]
        BY <2>2, <2>3, <2>4, AppendFacts
      <3>2. /\ DOMAIN a = 1 .. Len(g[i]) + 1
            /\ Len(g[i]) \in Nat /\ DOMAIN g[i] = 1 .. Len(g[i])
        BY <2>2, <3>1, IsSeqFacts
      <3> HIDE DEF a
      <3>3. ASSUME NEW k \in DOMAIN a
            PROVE  \E j \in 1 .. n : j \in places /\ a[k] = queue[j]
        <4>1. k \in 1 .. Len(g[i]) \/ k = Len(g[i]) + 1
          BY <3>2, <3>3
        <4>2. CASE k \in 1 .. Len(g[i])
          <5>1. a[k] = g[i][k] /\ k \in DOMAIN g[i]
            BY <3>1, <3>2, <4>2
          <5> QED BY <2>2, <5>1
        <4>3. CASE k = Len(g[i]) + 1
          BY <2>1, <2>4, <3>1, <4>3
        <4> QED BY <4>1, <4>2, <4>3
      <3> QED BY <3>1, <3>3 DEF a
    <2> QED BY <2>2, <2>3, <2>4
  <1> HIDE DEF T
  <1>7. \A i \in Nat : 0 <= i => i \in T
    <2>1. \A i \in Nat : 0 <= i /\ i \in T => i + 1 \in T
      BY <1>6
    <2>2. 0 \in Nat
      OBVIOUS
    <2> QED BY <1>5, <2>1, <2>2, Upward
  <1>8. n \in T
    BY <1>1, <1>7
  <1>9. IsSeq(g[n]) /\ Some(g[n])
    BY <1>1, <1>8 DEF T
  <1> QED BY <1>1, <1>3, <1>9

\* Everyone gets something, in the order of the queue, as far as the budget
\* goes: what the first i get together is what they need, or the budget.
LEMMA ShareFacts ==
    ASSUME NEW q, IsSeq(q), \A i \in DOMAIN q : Need(q[i]) \in Nat,
           options.batch \in Nat
    PROVE  /\ \A i \in DOMAIN q :
                 /\ Share(q, i) \in Nat /\ Share(q, i) <= Need(q[i])
                 /\ SumFunctionOnSet(Needs(q), 1 .. i) <= options.batch
                       => Share(q, i) = Need(q[i])
           /\ \A i \in 0 .. Len(q) :
                 /\ SumFunctionOnSet(Needs(q), 1 .. i) \in Nat
                 /\ SumFunctionOnSet(Shares(q), 1 .. i)
                       = AtMost(options.batch, SumFunctionOnSet(Needs(q), 1 .. i))
  <1> DEFINE n == Needs(q)
             s == Shares(q)
             N(i) == SumFunctionOnSet(n, 1 .. i)
             G(i) == SumFunctionOnSet(s, 1 .. i)
             b == options.batch
  <1>1. /\ Len(q) \in Nat /\ DOMAIN q = 1 .. Len(q)
    BY IsSeqFacts
  <1>2. \A i \in 1 .. Len(q) : n[i] = Need(q[i]) /\ n[i] \in Nat /\ s[i] = Share(q, i)
    BY <1>1 DEF Needs, Shares
  <1>3. ASSUME NEW i \in 1 .. Len(q)
        PROVE  s[i] = AtLeast(0, AtMost(n[i], b - N(i - 1)))
    BY <1>2 DEF Share
  <1> HIDE DEF n, s
  <1>4. ASSUME NEW i \in 1 .. Len(q)
        PROVE  N(i) = N(i - 1) + n[i] /\ N(i) \in Nat /\ N(i - 1) \in Nat
    <2>1. i \in Nat \ {0} /\ \A j \in 1 .. i : n[j] \in Nat
      BY <1>1, <1>2
    <2> QED BY <2>1, SumPrefix
  <1>5. ASSUME NEW i \in 1 .. Len(q)
        PROVE  /\ s[i] \in Nat /\ s[i] <= n[i] /\ (N(i) <= b => s[i] = n[i])
               /\ AtMost(b, N(i - 1)) + s[i] = AtMost(b, N(i))
    <2> HIDE DEF N
    <2>1. s[i] = AtLeast(0, AtMost(n[i], b - N(i - 1))) /\ n[i] \in Nat
      BY <1>2, <1>3
    <2>2. N(i) = N(i - 1) + n[i] /\ N(i) \in Nat /\ N(i - 1) \in Nat
      BY <1>4
    <2> QED BY <2>1, <2>2 DEF AtLeast, AtMost
  <1>6. ASSUME NEW i \in 1 .. Len(q)
        PROVE  G(i) = G(i - 1) + s[i]
    <2>1. i \in Nat \ {0} /\ \A j \in 1 .. i : s[j] \in Nat
      BY <1>1, <1>5
    <2> QED BY <2>1, SumPrefix
  <1> DEFINE T == {i \in Nat : i <= Len(q) => N(i) \in Nat /\ G(i) = AtMost(b, N(i))}
  <1>7. 0 \in T
    <2>1. 1 .. 0 = {} /\ IsFiniteSet({})
      BY FS_EmptySet
    <2>2. N(0) = 0 /\ G(0) = 0
      BY <2>1, SumRec
    <2> HIDE DEF N, G
    <2> QED BY <2>2 DEF AtMost
  <1>8. ASSUME NEW i \in Nat, i \in T PROVE i + 1 \in T
    <2> SUFFICES ASSUME i + 1 <= Len(q)
                 PROVE  N(i + 1) \in Nat /\ G(i + 1) = AtMost(b, N(i + 1))
      OBVIOUS
    <2>1. i + 1 \in 1 .. Len(q) /\ (i + 1) - 1 = i
      BY <1>1
    <2>2. G(i) = AtMost(b, N(i))
      BY <1>1, <1>8, <2>1
    <2>3. G(i + 1) = G(i) + s[i + 1]
      BY <1>6, <2>1
    <2>4. AtMost(b, N(i)) + s[i + 1] = AtMost(b, N(i + 1))
      BY <1>5, <2>1
    <2>5. N(i + 1) \in Nat
      BY <1>4, <2>1
    <2> HIDE DEF N, G
    <2> QED BY <2>2, <2>3, <2>4, <2>5
  <1> HIDE DEF T
  <1>9. \A i \in Nat : 0 <= i => i \in T
    <2>1. \A i \in Nat : 0 <= i /\ i \in T => i + 1 \in T
      BY <1>8
    <2>2. 0 \in Nat
      OBVIOUS
    <2> QED BY <1>7, <2>1, <2>2, Upward
  <1>10. \A i \in 0 .. Len(q) : i \in Nat /\ 0 <= i /\ i <= Len(q)
    BY <1>1
  <1>11. \A i \in 0 .. Len(q) : N(i) \in Nat /\ G(i) = AtMost(b, N(i))
    BY <1>9, <1>10 DEF T
  <1> HIDE DEF N, G
  <1> QED BY <1>1, <1>2, <1>5, <1>11 DEF N, G, n, s
-----------------------------------------------------------------------------
(***************************************************************************)
(* What admission reasons on, and what the step then has.                  *)
(***************************************************************************)
Prefill(queue) == {i \in DOMAIN queue : i > Len(running) \/ Need(queue[i]) > 1}

\* Every request of the queue gets all it needs.
Whole(q) == \A i \in DOMAIN q : Share(q, i) = Need(q[i])

\* If admission's step leaves something of the budget, nothing of it is cut.
LEMMA BudgetLeft ==
    ASSUME NEW queue, queue = running \o waiting, IsSeq(queue),
           \A i \in DOMAIN queue : Need(queue[i]) \in Nat \ {0},
           options.batch \in Nat
    PROVE  LET f == CurrentStepFeatures
           IN  /\ f.t_in \in Nat /\ f.b_d \in Nat
               /\ f.t_in + f.b_d < options.batch =>
                     /\ Whole(queue)
                     /\ SumFunctionOnSet(Needs(queue), 1 .. Len(queue)) = f.t_in + f.b_d
                     /\ f.t_in = SumFunctionOnSet(Needs(queue), Prefill(queue))
                     /\ f.b_d = Cardinality(DOMAIN queue \ Prefill(queue))
  <1> DEFINE D == DOMAIN queue
             P == Prefill(queue)
             n == Needs(queue)
             s == Shares(queue)
             W == SumFunctionOnSet(n, 1 .. Len(queue))
             b == options.batch
             t == SumFunctionOnSet(s, P)
             d == SumFunctionOnSet(s, D \ P)
  <1>1. Len(queue) \in Nat /\ D = 1 .. Len(queue)
    BY IsSeqFacts
  <1>2. /\ IsFiniteSet(D) /\ Cardinality(D) = Len(queue)
        /\ P \in SUBSET D /\ IsFiniteSet(P) /\ IsFiniteSet(D \ P)
    <2>1. P \in SUBSET D /\ D \ P \in SUBSET D
      BY DEF Prefill
    <2>2. IsFiniteSet(D) /\ Cardinality(D) = Len(queue)
      BY <1>1, FS_Interval
    <2> QED BY <2>1, <2>2, FS_Subset
  <1>3. Cardinality(D \ P) = Len(queue) - Cardinality(P) /\ Cardinality(P) \in Nat
        /\ Cardinality(D \ P) \in Nat
    <2>1. Cardinality(D \ P) = Cardinality(D) - Cardinality(D \cap P)
      BY <1>2, FS_Difference
    <2>2. D \cap P = P
      BY <1>2
    <2> QED BY <1>2, <2>1, <2>2, FS_CardinalityType
  <1>4. /\ CurrentStepFeatures.t_in = t
        /\ CurrentStepFeatures.b_d = Cardinality(D \ P)
    BY <1>3 DEF CurrentStepFeatures, Prefill
  <1>5. \A i \in D : n[i] = Need(queue[i]) /\ s[i] = Share(queue, i) /\ n[i] \in Nat \ {0}
    BY DEF Needs, Shares
  <1>6. \A i \in D : s[i] \in Nat /\ s[i] <= n[i]
    BY <1>5, ShareFacts
  <1>7. /\ \A i \in D : SumFunctionOnSet(n, 1 .. i) <= b => s[i] = n[i]
        /\ W \in Nat /\ SumFunctionOnSet(s, D) = AtMost(b, W)
    <2>1. Len(queue) \in 0 .. Len(queue)
      BY <1>1
    <2>2. \A i \in D : Need(queue[i]) \in Nat
      OBVIOUS
    <2> HIDE DEF n, s
    <2> QED BY <1>1, <1>5, <2>1, <2>2, ShareFacts DEF n, s
  <1>71. \A i \in D \ P : n[i] = 1
    <2>1. \A i \in D \ P : n[i] \in Nat \ {0} /\ n[i] <= 1
      BY <1>5 DEF Prefill
    <2> QED BY <2>1
  <1>72. (\A i \in D : s[i] = n[i]) => Whole(queue)
    BY <1>5 DEF Whole
  <1>73. D = 1 .. Len(queue)
    BY <1>1
  <1> HIDE DEF n, s, D, P
  <1>8. SumFunctionOnSet(s, D) = t + d /\ t \in Nat /\ d \in Nat
    BY <1>2, <1>6, SumSplit, ZenonT(30)
  <1>9. d <= Cardinality(D \ P)
    <2>1. \A i \in D \ P : s[i] \in Nat /\ s[i] <= 1
      <3>1. \A i \in D \ P : i \in D
        OBVIOUS
      <3> QED BY <1>6, <1>71, <3>1
    <2> DEFINE Z == {i \in D \ P : s[i] = 0}
    <2>2. \A i \in (D \ P) \ Z : s[i] = 1
      BY <2>1
    <2>3. /\ d = SumFunctionOnSet(s, Z) + SumFunctionOnSet(s, (D \ P) \ Z)
          /\ IsFiniteSet(Z) /\ IsFiniteSet((D \ P) \ Z)
      <3>1. Z \in SUBSET (D \ P) /\ (D \ P) \ Z \in SUBSET (D \ P)
        OBVIOUS
      <3>2. \A i \in D \ P : s[i] \in Nat
        BY <2>1
      <3> HIDE DEF Z
      <3> QED BY <1>2, <3>1, <3>2, SumSplit, FS_Subset
    <2>4. /\ SumFunctionOnSet(s, Z) = 0
          /\ SumFunctionOnSet(s, (D \ P) \ Z) = Cardinality((D \ P) \ Z)
      <3>1. \A i \in Z : s[i] = 0
        OBVIOUS
      <3> HIDE DEF Z
      <3> QED BY <2>2, <2>3, <3>1, SumConstant
    <2>5. Cardinality((D \ P) \ Z) <= Cardinality(D \ P)
      BY <1>2, FS_Subset
    <2>6. Cardinality((D \ P) \ Z) \in Nat
      BY <2>3, FS_CardinalityType
    <2> HIDE DEF Z, d
    <2> QED BY <1>3, <2>3, <2>4, <2>5, <2>6
  <1>10. ASSUME t + Cardinality(D \ P) < b
         PROVE  /\ \A i \in D : s[i] = n[i]
                /\ W = t + Cardinality(D \ P)
                /\ t = SumFunctionOnSet(n, P)
    <2>1. AtMost(b, W) < b
      <3> HIDE DEF t, d, W
      <3> QED BY <1>3, <1>7, <1>8, <1>9, <1>10
    <2>2. W < b
      <3> HIDE DEF W
      <3> QED BY <1>7, <2>1 DEF AtMost
    <2>3. ASSUME NEW i \in D PROVE s[i] = n[i]
      <3>1. 1 .. i \in SUBSET D
        BY <1>1, <1>73
      <3>2. \A j \in D : n[j] \in Nat
        BY <1>5
      <3>3. /\ SumFunctionOnSet(n, D)
                 = SumFunctionOnSet(n, 1 .. i) + SumFunctionOnSet(n, D \ (1 .. i))
            /\ SumFunctionOnSet(n, 1 .. i) \in Nat
            /\ SumFunctionOnSet(n, D \ (1 .. i)) \in Nat
        BY <1>2, <3>1, <3>2, SumSplit, ZenonT(30)
      <3>4. SumFunctionOnSet(n, 1 .. i) <= b
        BY <1>7, <1>73, <2>2, <3>3
      <3> QED BY <1>7, <3>4
    <2>4. SumFunctionOnSet(s, P) = SumFunctionOnSet(n, P) /\ SumFunctionOnSet(s, D) = SumFunctionOnSet(n, D)
      BY <1>2, <2>3, SumSame
    <2>5. d = Cardinality(D \ P)
      <3>1. \A i \in D \ P : s[i] = 1
        <4>1. \A i \in D \ P : i \in D
          OBVIOUS
        <4> QED BY <1>71, <2>3, <4>1
      <3> QED BY <1>2, <3>1, SumConstant
    <2>6. W = t + d
      BY <1>8, <1>73, <2>4
    <2> QED BY <2>3, <2>4, <2>5, <2>6
  <1> HIDE DEF t, W
  <1>12. /\ t \in Nat /\ Cardinality(D \ P) \in Nat
    BY <1>3, <1>8
  <1> QED BY <1>4, <1>10, <1>72, <1>12 DEF D, P, W, n, t
-----------------------------------------------------------------------------
(***************************************************************************)
(* The samples a step is given.                                            *)
(***************************************************************************)
\* The i-th of an admitted set: they stand behind each other by length.
SampleAt(S, i) ==
    CHOOSE s \in S : Cardinality({t \in S : SampleLen[t] < SampleLen[s]}) = i - 1

\* One request for each place, of a sample of its own.
LEMMA SampleReqsFacts ==
    ASSUME NEW S \in SUBSET Samples
    PROVE  LET q == SampleReqs(S)
               n == Cardinality(S)
           IN  /\ IsFiniteSet(S) /\ n \in Nat /\ IsSeq(q) /\ Len(q) = n
               /\ \A i \in 1 .. n : /\ SampleAt(S, i) \in S
                                    /\ SampleLen[SampleAt(S, i)] \in Nat \ {0}
                                    /\ q[i] = Req(SampleAt(S, i), SampleLen[SampleAt(S, i)], 1, TRUE)
               /\ \A i, j \in 1 .. n : SampleAt(S, i) = SampleAt(S, j) => i = j
  <1> DEFINE n == Cardinality(S)
             q == SampleReqs(S)
             e(i) == SampleAt(S, i)
  <1>1. /\ IsFiniteSet(S) /\ \A s \in S : SampleLen[s] \in Nat \ {0}
        /\ \A s, t \in S : SampleLen[s] = SampleLen[t] => s = t
    BY StepAssumption, FS_Subset
  <1>2. /\ n \in Nat
        /\ \A i \in 1 .. n : \E s \in S : Cardinality(Below(S, SampleLen, s)) = i - 1
    <2>1. \A s \in S : SampleLen[s] \in Nat
      BY <1>1
    <2> QED BY <1>1, <2>1, EveryPlace
  <1>3. \A i \in 1 .. n : e(i) \in S /\ Cardinality(Below(S, SampleLen, e(i))) = i - 1
    BY <1>2 DEF SampleAt, Below
  <1>4. \A i, j \in 1 .. n : e(i) = e(j) => i = j
    <2> SUFFICES ASSUME NEW i \in 1 .. n, NEW j \in 1 .. n, e(i) = e(j) PROVE i = j
      OBVIOUS
    <2>1. i - 1 = j - 1
      BY <1>3
    <2> QED BY <1>2, <2>1
  <1>5. q = [i \in 1 .. n |-> Req(e(i), SampleLen[e(i)], 1, TRUE)]
    BY DEF SampleReqs, SampleAt
  <1> HIDE DEF n, q, e
  <1>6. IsSeq(q) /\ Len(q) = n
    <2>1. DOMAIN q = 1 .. n /\ q = [i \in 1 .. n |-> q[i]]
      BY <1>5
    <2> QED BY <1>2, <2>1, FunSeq
  <1>7. \A i \in 1 .. n : SampleLen[e(i)] \in Nat \ {0}
    BY <1>1, <1>3
  <1> QED BY <1>1, <1>2, <1>3, <1>4, <1>5, <1>6, <1>7 DEF n, q, e

\* SumSplit, of every function and set at once.
LEMMA SumParts ==
    \A f, R : IsFiniteSet(R) /\ (\A x \in R : f[x] \in Nat) =>
        \A U \in SUBSET R :
            /\ SumFunctionOnSet(f, R) = SumFunctionOnSet(f, U) + SumFunctionOnSet(f, R \ U)
            /\ SumFunctionOnSet(f, R) \in Nat
            /\ SumFunctionOnSet(f, U) \in Nat /\ SumFunctionOnSet(f, R \ U) \in Nat
  <1> SUFFICES ASSUME NEW f, NEW R, IsFiniteSet(R), \A x \in R : f[x] \in Nat,
                      NEW U \in SUBSET R
               PROVE  /\ SumFunctionOnSet(f, R)
                           = SumFunctionOnSet(f, U) + SumFunctionOnSet(f, R \ U)
                      /\ SumFunctionOnSet(f, R) \in Nat
                      /\ SumFunctionOnSet(f, U) \in Nat /\ SumFunctionOnSet(f, R \ U) \in Nat
    OBVIOUS
  <1>1. SumFunctionOnSet(f, R) = SumFunctionOnSet(f, U) + SumFunctionOnSet(f, R \ U)
    BY SumSplit
  <1>2. SumFunctionOnSet(f, R) \in Nat
    BY SumSplit
  <1>3. SumFunctionOnSet(f, U) \in Nat
    BY SumSplit
  <1>4. SumFunctionOnSet(f, R \ U) \in Nat
    BY SumSplit
  <1> QED BY <1>1, <1>2, <1>3, <1>4

\* A sum of lengths is a number, and that of a part is no larger.
LEMMA LensFacts ==
    ASSUME NEW S \in SUBSET Samples
    PROVE  /\ IsFiniteSet(S) /\ SumLens(S) \in Nat
           /\ \A T \in SUBSET S : /\ SumLens(T) \in Nat /\ SumLens(S \ T) \in Nat
                                  /\ SumLens(S) = SumLens(T) + SumLens(S \ T)
                                  /\ SumLens(T) <= SumLens(S)
           /\ SumLens({}) = 0
  <1>1. IsFiniteSet(S) /\ \A s \in S : SampleLen[s] \in Nat
    BY StepAssumption, FS_Subset
  <1>2. SumLens(S) \in Nat
    BY <1>1, SumNat DEF SumLens
  <1>3. ASSUME NEW T \in SUBSET S
        PROVE  /\ SumLens(T) \in Nat /\ SumLens(S \ T) \in Nat
               /\ SumLens(S) = SumLens(T) + SumLens(S \ T)
    <2>1. /\ SumFunctionOnSet(SampleLen, S)
                = SumFunctionOnSet(SampleLen, T) + SumFunctionOnSet(SampleLen, S \ T)
          /\ SumFunctionOnSet(SampleLen, T) \in Nat
          /\ SumFunctionOnSet(SampleLen, S \ T) \in Nat
      <3>1. IsFiniteSet(S)
        BY <1>1
      <3>2. \A x \in S : SampleLen[x] \in Nat
        BY <1>1
      <3>3. T \in SUBSET S
        BY <1>3
      <3>4. IsFiniteSet(S) /\ \A x \in S : SampleLen[x] \in Nat
        BY <3>1, <3>2
      <3>5. \A U \in SUBSET S :
               /\ SumFunctionOnSet(SampleLen, S)
                     = SumFunctionOnSet(SampleLen, U) + SumFunctionOnSet(SampleLen, S \ U)
               /\ SumFunctionOnSet(SampleLen, S) \in Nat
               /\ SumFunctionOnSet(SampleLen, U) \in Nat
               /\ SumFunctionOnSet(SampleLen, S \ U) \in Nat
        BY <3>4, SumParts
      <3> QED BY <3>3, <3>5
    <2> QED BY <2>1 DEF SumLens
  <1>4. SumLens({}) = 0
    BY FS_EmptySet, SumRec DEF SumLens
  <1> QED BY <1>1, <1>2, <1>3, <1>4

\* The samples admitted fit in what inference leaves of the budget.
LEMMA AdmittedFits ==
    ASSUME NEW f, f.t_in \in Nat, f.b_d \in Nat, NEW rows \in Nat, NEW pending, NEW ready,
           pool \subseteq Samples, options \in Options,
           NEW S \in Admissible(f, pending, rows, ready)
    PROVE  /\ S \subseteq pool
           /\ S # {} => SumLens(S) <= options.batch - f.t_in - f.b_d
  <1> DEFINE caps == {options.capacity - rows, options.batch - f.t_in - f.b_d}
                     \cup IF options.prop # -1 /\ f.t_in > 0 THEN {f.t_in * options.prop} ELSE {}
             cap == TokenCap(f, rows)
             sets == {U \in Greedy(cap) : Metered(f) => Cardinality(U) <= 1}
  <1>1. options.batch \in Nat /\ options.capacity \in Nat /\ options.prop \in Int
    BY StepAssumption DEF Option
  <1>2. cap <= options.batch - f.t_in - f.b_d /\ cap \in Int
    <2> DEFINE a == options.capacity - rows
               b == options.batch - f.t_in - f.b_d
               c == f.t_in * options.prop
    <2>1. a \in Int /\ b \in Int /\ c \in Int
      BY <1>1
    <2> HIDE DEF a, b, c
    <2>2. \E x \in caps : \A y \in caps : x <= y
      <3>1. caps = {a, b} \/ caps = {a, b, c}
        BY DEF a, b, c
      <3> HIDE DEF caps
      <3>2. \A x, y \in Int : x <= y \/ y <= x
        OBVIOUS
      <3>3. CASE caps = {a, b}
        BY <2>1, <3>3
      <3>4. CASE caps = {a, b, c}
        <4>1. \/ a <= a /\ a <= b /\ a <= c
              \/ b <= a /\ b <= b /\ b <= c
              \/ c <= a /\ c <= b /\ c <= c
          BY <2>1, SMTT(30)
        <4> QED BY <3>4, <4>1
      <3> QED BY <3>1, <3>3, <3>4
    <2>3. cap = CHOOSE x \in caps : \A y \in caps : x <= y
      BY DEF TokenCap, Min
    <2>4. b \in caps
      BY DEF b
    <2> HIDE DEF caps, cap
    <2>5. cap <= b /\ cap \in caps
      BY <2>2, <2>3, <2>4
    <2>6. caps \subseteq Int
      BY <2>1 DEF caps, a, b, c
    <2> QED BY <2>5, <2>6 DEF b
  <1>3. /\ sets \subseteq SUBSET pool /\ {} \in sets
    <2>1. {} \in Greedy(cap) /\ Greedy(cap) \subseteq SUBSET pool
      BY DEF Greedy
    <2>2. Cardinality({}) <= 1
      BY FS_EmptySet
    <2> QED BY <2>1, <2>2
  <1>4. Largest(sets) \in sets
    <2> DEFINE g == [U \in sets |-> Cardinality(U)]
    <2>1. IsFiniteSet(pool) /\ IsFiniteSet(SUBSET pool)
      BY StepAssumption, FS_Subset, FS_SUBSET
    <2>2. IsFiniteSet(sets)
      <3> HIDE DEF sets
      <3> QED BY <1>3, <2>1, FS_Subset
    <2> HIDE DEF sets
    <2>3. \A U \in sets : Cardinality(U) \in Nat
      BY <1>3, <2>1, FS_Subset, FS_CardinalityType
    <2>4. \A U \in sets : g[U] \in Nat
      BY <2>3
    <2>5. \E U \in sets : \A T \in sets : g[T] <= g[U]
      <3> HIDE DEF g
      <3> QED BY <1>3, <2>2, <2>4, LastExists
    <2> QED BY <2>5 DEF Largest
  <1>5. S \in sets \/ S = {}
    BY <1>4 DEF Admissible
  <1>6. S \in sets
    BY <1>3, <1>5
  <1>7. S = {} \/ SumLens(S) <= cap
    BY <1>6 DEF Greedy
  <1>8. ASSUME S # {} PROVE SumLens(S) <= options.batch - f.t_in - f.b_d
    <2> DEFINE b == options.batch - f.t_in - f.b_d
    <2>1. cap <= b /\ SumLens(S) <= cap /\ b \in Int
      BY <1>1, <1>2, <1>7, <1>8
    <2>2. cap \in Int
      BY <1>2
    <2>3. SumLens(S) \in Nat
      BY <1>3, <1>6, LensFacts
    <2> HIDE DEF b, cap
    <2> QED BY <2>1, <2>2, <2>3 DEF b
  <1>9. S \subseteq pool
    BY <1>3, <1>6
  <1> QED BY <1>8, <1>9
-----------------------------------------------------------------------------
(***************************************************************************)
(* The plan of the launch pass is a sequence of shapes.                     *)
(***************************************************************************)
ShapeOk(s) == IsSeq(s.inf) /\ IsSeq(s.ft) /\ IsSeq(s.mix)
Shapes(t) == IsSeq(t) /\ \A i \in DOMAIN t : ShapeOk(t[i])

\* A shape made of three sequences.
LEMMA ShapeIsOk ==
    ASSUME NEW kind, NEW inf, IsSeq(inf), NEW ft, IsSeq(ft), NEW mix, IsSeq(mix), NEW n
    PROVE  ShapeOk(Shape(kind, inf, ft, mix, n))
  BY DEF ShapeOk, Shape

\* Shapes one behind the other.
LEMMA ShapesMade ==
    ASSUME NEW n \in Nat, NEW g, DOMAIN g = 1 .. n, g = [k \in 1 .. n |-> g[k]],
           \A k \in 1 .. n : ShapeOk(g[k])
    PROVE  Shapes(g)
  BY FunSeq DEF Shapes

\* Shapes behind others.
LEMMA ShapesBehind ==
    ASSUME NEW s, Shapes(s), NEW t, Shapes(t)
    PROVE  Shapes(s \o t)
  <1> DEFINE c == s \o t
  <1>1. /\ IsSeq(s) /\ IsSeq(t)
        /\ \A i \in 1 .. Len(s) : ShapeOk(s[i])
        /\ \A i \in 1 .. Len(t) : ShapeOk(t[i])
        /\ Len(s) \in Nat /\ Len(t) \in Nat
    BY IsSeqFacts DEF Shapes
  <1>2. /\ IsSeq(c) /\ Len(c) = Len(s) + Len(t)
        /\ \A j \in 1 .. Len(s) : c[j] = s[j]
        /\ \A j \in 1 .. Len(t) : c[Len(s) + j] = t[j]
    BY <1>1, ConcatFacts
  <1>3. DOMAIN c = 1 .. Len(c)
    BY <1>2, IsSeqFacts
  <1> HIDE DEF c
  <1>4. ASSUME NEW i \in DOMAIN c PROVE ShapeOk(c[i])
    <2>1. i \in 1 .. Len(s) + Len(t)
      BY <1>2, <1>3
    <2>2. CASE i <= Len(s)
      <3>1. i \in 1 .. Len(s)
        BY <1>1, <2>1, <2>2
      <3> QED BY <1>1, <1>2, <3>1
    <2>3. CASE i > Len(s)
      <3>1. i - Len(s) \in 1 .. Len(t) /\ i = Len(s) + (i - Len(s))
        BY <1>1, <2>1, <2>3
      <3>2. c[i] = t[i - Len(s)]
        BY <1>2, <3>1
      <3> QED BY <1>1, <3>1, <3>2
    <2> QED BY <1>1, <2>1, <2>2, <2>3
  <1> QED BY <1>2, <1>4 DEF Shapes, c

\* A few of them, or none.
LEMMA ShapesFew ==
    /\ Shapes(<<>>)
    /\ \A s : ShapeOk(s) => Shapes(<<s>>)
    /\ \A s, t : ShapeOk(s) /\ ShapeOk(t) => Shapes(<<s, t>>)
  <1>1. Shapes(<<>>)
    BY OneFacts DEF Shapes
  <1>2. ASSUME NEW s, ShapeOk(s) PROVE Shapes(<<s>>)
    BY <1>2, OneFacts DEF Shapes
  <1>3. ASSUME NEW s, NEW t, ShapeOk(s), ShapeOk(t) PROVE Shapes(<<s, t>>)
    <2>1. IsSeq(<<s, t>>) /\ DOMAIN <<s, t>> = 1 .. 2
      BY DEF IsSeq
    <2> QED BY <1>3, <2>1 DEF Shapes
  <1> QED BY <1>1, <1>2, <1>3

\* The numbers of a set, sorted, are numbers of the set.
LEMMA SortedFacts ==
    ASSUME NEW S \in SUBSET Nat, IsFiniteSet(S)
    PROVE  /\ IsSeq(Sorted(S)) /\ Len(Sorted(S)) = Cardinality(S)
           /\ Cardinality(S) \in Nat
           /\ \A i \in DOMAIN Sorted(S) : Sorted(S)[i] \in Nat
  <1> DEFINE f == [x \in S |-> x]
             n == Cardinality(S)
             q == Sorted(S)
             e(i) == CHOOSE x \in S : Cardinality({y \in S : y < x}) = i - 1
  <1>1. n \in Nat /\ \A i \in 1 .. n : \E x \in S : Cardinality(Below(S, f, x)) = i - 1
    <2>1. /\ \A x \in S : f[x] \in Nat
          /\ \A x, y \in S : f[x] = f[y] => x = y
      OBVIOUS
    <2> HIDE DEF f
    <2> QED BY <2>1, EveryPlace
  <1>2. \A x \in S : Below(S, f, x) = {y \in S : y < x}
    BY DEF Below
  <1>3. \A i \in 1 .. n : e(i) \in S
    BY <1>1, <1>2
  <1>4. q = [i \in 1 .. n |-> e(i)]
    BY DEF Sorted
  <1> HIDE DEF e, q, n
  <1>5. DOMAIN q = 1 .. n /\ q = [i \in 1 .. n |-> q[i]] /\ \A i \in 1 .. n : q[i] \in Nat
    BY <1>3, <1>4
  <1>6. IsSeq(q) /\ Len(q) = n
    BY <1>1, <1>5, FunSeq
  <1> QED BY <1>1, <1>5, <1>6 DEF q, n

\* The arithmetic of a plan stays within the whole numbers.
LEMMA PlanNumbers ==
    ASSUME NEW o \in Option
    PROVE  /\ o.batch \in Nat /\ o.capacity \in Nat /\ o.max_len \in Nat /\ o.repeats \in Nat
           /\ MaxReqLen(o) \in Nat \ {0} /\ InfCap(o) \in Nat \ {0}
           /\ \A a, b \in Int : AtLeast(a, b) \in Int /\ AtMost(a, b) \in Int
                                /\ AtLeast(a, b) >= a /\ AtLeast(a, b) >= b
  <1>1. o.batch \in Nat /\ o.capacity \in Nat /\ o.max_len \in Nat /\ o.repeats \in Nat
    BY DEF Option
  <1>2. MaxReqLen(o) \in Nat \ {0} /\ InfCap(o) \in Nat \ {0}
    BY <1>1 DEF MaxReqLen, InfCap, AtLeast, AtMost
  <1>3. \A a, b \in Int : AtLeast(a, b) \in Int /\ AtMost(a, b) \in Int
                          /\ AtLeast(a, b) >= a /\ AtLeast(a, b) >= b
    BY DEF AtLeast, AtMost
  <1> QED BY <1>1, <1>2, <1>3

\* The pieces of a number, however many there are, are a sequence.
LEMMA PartitionIsSeq ==
    ASSUME NEW o \in Option, NEW total \in Int, NEW k \in Int
    PROVE  IsSeq(Partition(o, total, k))
  <1> DEFINE m == MaxReqLen(o)
             a == AtLeast(1, AtMost(k, total))
             b == (total + m - 1) \div m
             n == AtLeast(a, b)
             p == Partition(o, total, k)
  <1>1. m \in Nat \ {0} /\ a \in Int /\ a >= 1
    <2>1. m \in Nat \ {0}
      BY PlanNumbers
    <2>2. AtMost(k, total) \in Int
      BY DEF AtMost
    <2>3. a \in Int /\ a >= 1
      BY <2>2 DEF AtLeast
    <2> QED BY <2>1, <2>3
  <1>2. b \in Int
    <2> HIDE DEF m
    <2> QED BY <1>1
  <1>3. n \in Int /\ n >= a
    <2> HIDE DEF a, b
    <2> QED BY <1>1, <1>2, PlanNumbers
  <1>4. n \in Nat
    <2> HIDE DEF n, a
    <2> QED BY <1>1, <1>3
  <1>5. DOMAIN p = 1 .. n /\ p = [i \in 1 .. n |-> p[i]]
    BY DEF Partition
  <1> HIDE DEF n, p
  <1>6. IsSeq(p)
    BY <1>4, <1>5, FunSeq
  <1> QED BY <1>6 DEF p

\* The same with the sizes the generators ask for.
LEMMA PiecesAreSeq ==
    ASSUME NEW o \in Option, NEW total \in Int
    PROVE  IsSeq(Pieces(o, total, 64)) /\ IsSeq(Pieces(o, total, 128))
           /\ IsSeq(Pieces(o, total, 256))
  <1>1. /\ AtLeast(1, total \div 64) \in Int /\ AtLeast(1, total \div 128) \in Int
        /\ AtLeast(1, total \div 256) \in Int
    BY DEF AtLeast
  <1> QED BY <1>1, PartitionIsSeq DEF Pieces

\* The lists of shapes, in the order of the plan.
LEMMA PrefillShapesOk ==
    ASSUME NEW o \in Option
    PROVE  Shapes(PrefillShapes(o))
  <1> DEFINE cap == InfCap(o)
             T == {t \in {64, 128, 256, 512, 1024, 2048, 4096} : t <= cap}
                  \cup {AtLeast(64, (cap * q) \div 4) : q \in 2..4}
             targets == PrefillTargets(o)
             prefill(total, k) == Shape("prefill", Partition(o, total, k), <<>>, <<>>, 0)
             caps == <<AtMost(512, cap), AtMost(2048, cap)>>
             pivots == Picked(caps, {i \in DOMAIN caps : caps[i] >= 256})
             pivot(i) == pivots[((i - 1) \div 3) + 1]
             parts(total) == <<1, 4, AtLeast(4, total \div 64)>>
             one == [i \in DOMAIN targets |->
                        prefill(targets[i], AtLeast(1, AtMost(8, targets[i] \div 128)))]
             two == [i \in 1..(3 * Len(pivots)) |->
                        prefill(pivot(i), parts(pivot(i))[((i - 1) % 3) + 1])]
  <1>1. cap \in Nat \ {0}
    BY PlanNumbers
  <1>2. /\ IsSeq(targets) /\ Len(targets) \in Nat /\ DOMAIN targets = 1 .. Len(targets)
        /\ \A i \in DOMAIN targets : targets[i] \in Nat
    <2>1. \A q \in 2 .. 4 : AtLeast(64, (cap * q) \div 4) \in 0 .. (4160 + cap)
      <3> HIDE DEF cap
      <3>1. /\ (cap * 2) \div 4 \in 0 .. cap /\ (cap * 3) \div 4 \in 0 .. cap
            /\ (cap * 4) \div 4 \in 0 .. cap
        BY <1>1
      <3>2. \A q \in 2 .. 4 : q = 2 \/ q = 3 \/ q = 4
        OBVIOUS
      <3>3. \A q \in 2 .. 4 : (cap * q) \div 4 \in 0 .. cap
        BY <3>1, <3>2
      <3> QED BY <1>1, <3>3 DEF AtLeast
    <2>2. T \in SUBSET (0 .. (4160 + cap))
      <3> HIDE DEF cap
      <3> QED BY <1>1, <2>1
    <2>4. T \in SUBSET Nat /\ IsFiniteSet(T)
      <3>1. IsFiniteSet(0 .. (4160 + cap))
        <4> HIDE DEF cap
        <4> QED BY <1>1, FS_Interval
      <3>2. 0 .. (4160 + cap) \subseteq Nat
        OBVIOUS
      <3> DEFINE R == 0 .. (4160 + cap)
      <3> HIDE DEF T, R
      <3>3. T \in SUBSET R /\ R \subseteq Nat /\ IsFiniteSet(R)
        BY <2>2, <3>1, <3>2 DEF R
      <3> QED BY <3>3, FS_Subset
    <2>3. targets = Sorted(T)
      BY DEF PrefillTargets
    <2> HIDE DEF T, targets
    <2> QED BY <2>3, <2>4, SortedFacts, IsSeqFacts
  <1>3. \A total, k \in Int : ShapeOk(prefill(total, k))
    BY PartitionIsSeq, OneFacts, ShapeIsOk
  <1>4. /\ IsSeq(pivots) /\ Len(pivots) \in Nat /\ DOMAIN pivots = 1 .. Len(pivots)
        /\ \A i \in DOMAIN pivots : pivots[i] \in Int
    <2>1. IsSeq(caps) /\ \A i \in DOMAIN caps : caps[i] \in Int
      <3>1. AtMost(512, cap) \in Int /\ AtMost(2048, cap) \in Int
        <4> HIDE DEF cap
        <4> QED BY <1>1 DEF AtMost
      <3>2. caps \in Seq(Int)
        <4> HIDE DEF cap
        <4> QED BY <3>1
      <3> HIDE DEF caps
      <3> QED BY <3>2 DEF IsSeq
    <2> HIDE DEF caps
    <2>2. IsSeq(pivots) /\ \A i \in DOMAIN pivots : pivots[i] \in Int
      BY <2>1, PickedFacts
    <2> HIDE DEF pivots
    <2> QED BY <2>2, IsSeqFacts
  <1> HIDE DEF prefill, targets, pivots
  <1>5. Shapes(one)
    <2>1. \A i \in DOMAIN targets : AtLeast(1, AtMost(8, targets[i] \div 128)) \in Int
      <3>1. \A i \in DOMAIN targets : targets[i] \div 128 \in Int
        BY <1>2
      <3> QED BY <3>1 DEF AtLeast, AtMost
    <2>2. \A i \in 1 .. Len(targets) : ShapeOk(one[i])
      BY <1>2, <1>3, <2>1
    <2>3. DOMAIN one = 1 .. Len(targets) /\ one = [i \in 1 .. Len(targets) |-> one[i]]
      BY <1>2
    <2> HIDE DEF one
    <2> QED BY <1>2, <2>2, <2>3, ShapesMade
  <1>6. Shapes(two)
    <2> DEFINE n == 3 * Len(pivots)
    <2>1. n \in Nat
      BY <1>4
    <2>2. ASSUME NEW i \in 1 .. n PROVE ShapeOk(two[i])
      <3>1. ((i - 1) \div 3) + 1 \in 1 .. Len(pivots)
        BY <1>4, <2>2
      <3>2. pivot(i) \in Int
        BY <1>4, <3>1
      <3>3. ((i - 1) % 3) + 1 \in 1 .. 3
        BY <2>1, <2>2
      <3>4. ASSUME NEW total \in Int, NEW j \in 1 .. 3 PROVE parts(total)[j] \in Int
        <4>1. AtLeast(4, total \div 64) \in Int
          BY DEF AtLeast
        <4> QED BY <4>1
      <3> HIDE DEF parts, pivot
      <3>5. two[i] = prefill(pivot(i), parts(pivot(i))[((i - 1) % 3) + 1])
        OBVIOUS
      <3> QED BY <1>3, <3>2, <3>3, <3>4, <3>5
    <2>3. DOMAIN two = 1 .. n /\ two = [i \in 1 .. n |-> two[i]]
      OBVIOUS
    <2> HIDE DEF two, n
    <2> QED BY <2>1, <2>2, <2>3, ShapesMade
  <1>7. PrefillShapes(o) = one \o two
    BY DEF PrefillShapes, prefill, targets, pivots
  <1> HIDE DEF one, two
  <1> QED BY <1>5, <1>6, <1>7, ShapesBehind

\* What is picked of a sequence of numbers, or of pairs of them.
LEMMA PickedNumbers ==
    ASSUME NEW t, NEW V, t \in Seq(V), NEW places
    PROVE  LET p == Picked(t, places)
           IN  /\ IsSeq(p) /\ Len(p) \in Nat /\ DOMAIN p = 1 .. Len(p)
               /\ \A i \in DOMAIN p : p[i] \in V
  <1> DEFINE p == Picked(t, places)
  <1>1. IsSeq(t) /\ \A i \in DOMAIN t : t[i] \in V
    BY DEF IsSeq
  <1>2. IsSeq(p) /\ \A k \in DOMAIN p : \E j \in DOMAIN t : j \in places /\ p[k] = t[j]
    BY <1>1, PickedFacts
  <1> HIDE DEF p
  <1>3. \A k \in DOMAIN p : p[k] \in V
    BY <1>1, <1>2
  <1> QED BY <1>2, <1>3, IsSeqFacts DEF p

\* Prompts of one length.
LEMMA DecodeShapeIsOk ==
    ASSUME NEW b \in Nat, NEW len, NEW ft, IsSeq(ft)
    PROVE  ShapeOk(DecodeShape(b, len, ft))
  <1> DEFINE g == [i \in 1 .. b |-> len]
  <1>1. IsSeq(g)
    <2>1. DOMAIN g = 1 .. b /\ g = [i \in 1 .. b |-> g[i]]
      OBVIOUS
    <2> HIDE DEF g
    <2> QED BY <2>1, FunSeq
  <1> HIDE DEF g
  <1>2. ShapeOk(Shape("decode", g, ft, <<>>, 2))
    BY <1>1, OneFacts, ShapeIsOk
  <1> QED BY <1>2 DEF DecodeShape, g

\* Decodes of several widths and lengths.
LEMMA DecodeShapesOk ==
    ASSUME NEW o \in Option
    PROVE  Shapes(DecodeShapes(o))
  <1> DEFINE per(b) == LET p == AtMost(MaxReqLen(o), AtLeast(16, InfCap(o) \div b))
                       IN  IF b * p > o.batch THEN AtLeast(16, o.batch \div b) ELSE p
             counts == <<1, 2, 4, 8, 16, 32>>
             caps == [i \in 1..4 |-> AtMost(<<32, 128, 512, 1024>>[i], MaxReqLen(o))]
             lens == Picked(caps, {i \in DOMAIN caps : 4 * caps[i] <= o.batch})
             one == [i \in DOMAIN counts |-> DecodeShape(counts[i], per(counts[i]), <<>>)]
             two == [i \in DOMAIN lens |-> DecodeShape(4, lens[i], <<>>)]
  <1>1. Shapes(one)
    <2>1. DOMAIN counts = 1 .. 6 /\ \A i \in 1 .. 6 : counts[i] \in Nat
      OBVIOUS
    <2> HIDE DEF counts, per
    <2>2. \A i \in 1 .. 6 : ShapeOk(one[i])
      BY <2>1, OneFacts, DecodeShapeIsOk
    <2>3. DOMAIN one = 1 .. 6 /\ one = [i \in 1 .. 6 |-> one[i]]
      BY <2>1
    <2> HIDE DEF one
    <2> QED BY <2>2, <2>3, ShapesMade
  <1>2. Shapes(two)
    <2>1. caps \in Seq(Int)
      <3>1. \A i \in 1 .. 4 : <<32, 128, 512, 1024>>[i] \in Int
        OBVIOUS
      <3>2. \A i \in 1 .. 4 : caps[i] \in Int
        <4>1. MaxReqLen(o) \in Int
          BY PlanNumbers
        <4> QED BY <3>1, <4>1 DEF AtMost
      <3>3. DOMAIN caps = 1 .. 4 /\ caps = [i \in 1 .. 4 |-> caps[i]]
        OBVIOUS
      <3> HIDE DEF caps
      <3> QED BY <3>2, <3>3
    <2> HIDE DEF caps
    <2>2. Len(lens) \in Nat /\ DOMAIN lens = 1 .. Len(lens)
      BY <2>1, PickedNumbers
    <2> HIDE DEF lens
    <2>3. \A i \in 1 .. Len(lens) : ShapeOk(two[i])
      BY <2>2, OneFacts, DecodeShapeIsOk
    <2>4. DOMAIN two = 1 .. Len(lens) /\ two = [i \in 1 .. Len(lens) |-> two[i]]
      BY <2>2
    <2> HIDE DEF two
    <2> QED BY <2>2, <2>3, <2>4, ShapesMade
  <1>3. DecodeShapes(o) = one \o two
    BY DEF DecodeShapes
  <1> HIDE DEF one, two
  <1> QED BY <1>1, <1>2, <1>3, ShapesBehind

\* Inference beside finetuning, each of the grid.
LEMMA CoserveShapesOk ==
    ASSUME NEW o \in Option
    PROVE  Shapes(CoserveShapes(o))
  <1> DEFINE L == {AtLeast(8, o.capacity \div 4), AtLeast(16, o.capacity \div 2), o.capacity}
             levels == Sorted(L)
             grid == [i \in 1..(3 * Len(levels)) |->
                         [ft |-> levels[((i - 1) \div 3) + 1],
                          inf |-> <<128, 512, 1024>>[((i - 1) % 3) + 1]]]
             fitting == Picked(grid, {i \in DOMAIN grid : grid[i].inf + grid[i].ft <= o.batch})
             one == [i \in DOMAIN fitting |-> Coserve(Pieces(o, fitting[i].inf, 256),
                                                      Pieces(o, fitting[i].ft, 64))]
             two == IF 32 + o.capacity <= o.batch
                    THEN <<Coserve(<<32>>, Pieces(o, o.capacity, 64))>> ELSE <<>>
             three == IF o.split
                      THEN [i \in DOMAIN levels |-> Coserve(<<>>, Pieces(o, levels[i], 64))]
                      ELSE <<>>
  <1>1. o.capacity \in Nat
    BY PlanNumbers
  <1>2. /\ Len(levels) \in Nat /\ DOMAIN levels = 1 .. Len(levels)
        /\ \A i \in DOMAIN levels : levels[i] \in Nat
    <2>1. L \in SUBSET (0 .. (16 + o.capacity))
      BY <1>1 DEF AtLeast
    <2>2. IsFiniteSet(0 .. (16 + o.capacity))
      BY <1>1, FS_Interval
    <2> HIDE DEF L
    <2>3. L \in SUBSET Nat /\ IsFiniteSet(L)
      <3> DEFINE R == 0 .. (16 + o.capacity)
      <3>1. R \subseteq Nat
        OBVIOUS
      <3> HIDE DEF R
      <3>2. L \in SUBSET R /\ IsFiniteSet(R)
        BY <2>1, <2>2 DEF R
      <3> QED BY <3>1, <3>2, FS_Subset
    <2> QED BY <2>3, SortedFacts, IsSeqFacts
  <1> HIDE DEF L, levels
  <1>3. ASSUME NEW total \in Int
        PROVE  IsSeq(Pieces(o, total, 64)) /\ IsSeq(Pieces(o, total, 256))
    BY PiecesAreSeq
  <1>4. \A inf, ft : IsSeq(inf) /\ IsSeq(ft) => ShapeOk(Coserve(inf, ft))
    BY OneFacts, ShapeIsOk DEF Coserve
  <1>5. Shapes(one)
    <2> DEFINE V == [ft : Int, inf : Int]
    <2>1. grid \in Seq(V)
      <3> DEFINE n == 3 * Len(levels)
      <3>1. n \in Nat
        BY <1>2
      <3>2. ASSUME NEW i \in 1 .. n PROVE grid[i] \in V
        <4>1. ((i - 1) \div 3) + 1 \in 1 .. Len(levels) /\ ((i - 1) % 3) + 1 \in 1 .. 3
          BY <1>2, <3>2
        <4>2. levels[((i - 1) \div 3) + 1] \in Int
          BY <1>2, <4>1
        <4>3. <<128, 512, 1024>>[((i - 1) % 3) + 1] \in Int
          BY <4>1
        <4> QED BY <3>2, <4>2, <4>3
      <3>3. DOMAIN grid = 1 .. n /\ grid = [i \in 1 .. n |-> grid[i]]
        OBVIOUS
      <3> HIDE DEF grid, n, V
      <3> QED BY <3>1, <3>2, <3>3
    <2> HIDE DEF grid
    <2>2. /\ Len(fitting) \in Nat /\ DOMAIN fitting = 1 .. Len(fitting)
          /\ \A i \in DOMAIN fitting : fitting[i] \in [ft : Int, inf : Int]
      BY <2>1, PickedNumbers
    <2> HIDE DEF fitting
    <2>3. \A i \in 1 .. Len(fitting) : ShapeOk(one[i])
      BY <1>3, <1>4, <2>2
    <2>4. DOMAIN one = 1 .. Len(fitting) /\ one = [i \in 1 .. Len(fitting) |-> one[i]]
      BY <2>2
    <2> HIDE DEF one
    <2> QED BY <2>2, <2>3, <2>4, ShapesMade
  <1>6. Shapes(two)
    <2>1. IsSeq(Pieces(o, o.capacity, 64)) /\ IsSeq(<<32>>)
      BY <1>1, <1>3, OneFacts
    <2> QED BY <1>4, <2>1, ShapesFew
  <1>7. Shapes(three)
    <2> DEFINE g == [i \in DOMAIN levels |-> Coserve(<<>>, Pieces(o, levels[i], 64))]
    <2>1. \A i \in 1 .. Len(levels) : ShapeOk(g[i])
      BY <1>2, <1>3, <1>4, OneFacts
    <2>2. DOMAIN g = 1 .. Len(levels) /\ g = [i \in 1 .. Len(levels) |-> g[i]]
      BY <1>2
    <2>3. Shapes(g)
      <3> HIDE DEF g
      <3> QED BY <1>2, <2>1, <2>2, ShapesMade
    <2> QED BY <2>3, ShapesFew
  <1>8. CoserveShapes(o) = one \o two \o three
    BY DEF CoserveShapes, levels, L
  <1> HIDE DEF one, two, three
  <1> QED BY <1>5, <1>6, <1>7, <1>8, ShapesBehind

\* The shapes of two waves, with and without finetuning.
LEMMA MixedShapesOk ==
    ASSUME NEW o \in Option
    PROVE  Shapes(MixedShapes(o)) /\ Shapes(FtOnMixedShapes(o))
  <1> DEFINE V == [1 .. 2 -> Int]
             W == [1 .. 3 -> Int]
             waves == <<<<256, 128>>, <<512, 256>>, <<1024, 256>>>>
             fitting == Picked(waves, {i \in DOMAIN waves :
                                         waves[i][1] <= InfCap(o) /\ waves[i][2] <= InfCap(o)})
             mixed == [i \in DOMAIN fitting |-> Mixed(o, fitting[i][1], fitting[i][2], <<>>)]
             more == <<<<256, 128, 64>>, <<512, 256, 128>>, <<1024, 256, 64>>>>
             fits(w) == /\ w[1] <= InfCap(o) /\ w[2] <= InfCap(o)
                        /\ w[3] <= o.capacity /\ w[2] + w[3] <= o.batch
             chosen == Picked(more, {i \in DOMAIN more : fits(more[i])})
             behind == [i \in DOMAIN chosen |->
                Mixed(o, chosen[i][1], chosen[i][2], Pieces(o, chosen[i][3], 64))]
  <1>1. ASSUME NEW inf \in Int, NEW mix \in Int, NEW ft, IsSeq(ft)
        PROVE  ShapeOk(Mixed(o, inf, mix, ft))
    <2>1. IsSeq(Pieces(o, inf, 256)) /\ IsSeq(Pieces(o, mix, 128))
      BY PiecesAreSeq
    <2> QED BY <1>1, <2>1, ShapeIsOk DEF Mixed
  <1>2. waves \in Seq(V) /\ more \in Seq(W)
    <2>1. /\ <<256, 128>> \in V /\ <<512, 256>> \in V /\ <<1024, 256>> \in V
          /\ <<256, 128, 64>> \in W /\ <<512, 256, 128>> \in W /\ <<1024, 256, 64>> \in W
      OBVIOUS
    <2> HIDE DEF V, W
    <2> QED BY <2>1
  <1> HIDE DEF waves, more, fits
  <1>3. Shapes(mixed)
    <2>1. /\ Len(fitting) \in Nat /\ DOMAIN fitting = 1 .. Len(fitting)
          /\ \A i \in DOMAIN fitting : fitting[i] \in V
      <3> HIDE DEF V
      <3> QED BY <1>2, PickedNumbers
    <2> HIDE DEF fitting
    <2>2. \A i \in 1 .. Len(fitting) : fitting[i][1] \in Int /\ fitting[i][2] \in Int
      BY <2>1
    <2>3. \A i \in 1 .. Len(fitting) : ShapeOk(mixed[i])
      BY <1>1, <2>1, <2>2, OneFacts
    <2>4. DOMAIN mixed = 1 .. Len(fitting) /\ mixed = [i \in 1 .. Len(fitting) |-> mixed[i]]
      BY <2>1
    <2> HIDE DEF mixed
    <2> QED BY <2>1, <2>3, <2>4, ShapesMade
  <1>4. Shapes(behind)
    <2>1. /\ Len(chosen) \in Nat /\ DOMAIN chosen = 1 .. Len(chosen)
          /\ \A i \in DOMAIN chosen : chosen[i] \in W
      <3> HIDE DEF W
      <3> QED BY <1>2, PickedNumbers
    <2> HIDE DEF chosen
    <2>2. \A i \in 1 .. Len(chosen) :
             chosen[i][1] \in Int /\ chosen[i][2] \in Int /\ chosen[i][3] \in Int
      BY <2>1
    <2>3. \A i \in 1 .. Len(chosen) : IsSeq(Pieces(o, chosen[i][3], 64))
      BY <2>2, PiecesAreSeq
    <2>4. \A i \in 1 .. Len(chosen) : ShapeOk(behind[i])
      BY <1>1, <2>1, <2>2, <2>3
    <2>5. DOMAIN behind = 1 .. Len(chosen) /\ behind = [i \in 1 .. Len(chosen) |-> behind[i]]
      BY <2>1
    <2> HIDE DEF behind
    <2> QED BY <2>1, <2>4, <2>5, ShapesMade
  <1>5. MixedShapes(o) = mixed
    BY DEF MixedShapes, waves
  <1>6. FtOnMixedShapes(o) = behind
    BY DEF FtOnMixedShapes, more, fits
  <1> HIDE DEF mixed, behind
  <1> QED BY <1>3, <1>4, <1>5, <1>6

\* Finetuning beside a decode.
LEMMA FtOnDecodeShapesOk ==
    ASSUME NEW o \in Option
    PROVE  Shapes(FtOnDecodeShapes(o))
  <1> DEFINE ft == AtLeast(8, AtMost(o.capacity, 64))
             budget == o.batch - ft
             per(b) == LET p == AtMost(MaxReqLen(o), AtLeast(16, budget \div b))
                       IN  IF b * p > budget THEN AtLeast(16, budget \div b) ELSE p
             counts == <<1, 2, 4, 8>>
             fitting == Picked(counts, {i \in DOMAIN counts :
                                          counts[i] * per(counts[i]) + ft <= o.batch})
             g == [i \in DOMAIN fitting |-> DecodeShape(fitting[i], per(fitting[i]), <<ft>>)]
  <1>1. counts \in Seq(Nat)
    OBVIOUS
  <1>2. FtOnDecodeShapes(o) = IF budget < 16 THEN <<>> ELSE g
    BY DEF FtOnDecodeShapes
  <1> HIDE DEF counts, per, ft, budget
  <1>3. /\ Len(fitting) \in Nat /\ DOMAIN fitting = 1 .. Len(fitting)
        /\ \A i \in DOMAIN fitting : fitting[i] \in Nat
    BY <1>1, PickedNumbers
  <1> HIDE DEF fitting
  <1>4. \A i \in 1 .. Len(fitting) : ShapeOk(g[i])
    BY <1>3, OneFacts, DecodeShapeIsOk
  <1>5. DOMAIN g = 1 .. Len(fitting) /\ g = [i \in 1 .. Len(fitting) |-> g[i]]
    BY <1>3
  <1> HIDE DEF g
  <1>6. Shapes(g)
    BY <1>3, <1>4, <1>5, ShapesMade
  <1> QED BY <1>2, <1>6, ShapesFew

\* The warm-up, and finetuning alone.
LEMMA WarmupOk ==
    ASSUME NEW o \in Option
    PROVE  Shapes(Warmup(o)) /\ Shapes(FtOnlyIdleShapes(o))
  <1> DEFINE ft == AtMost(o.capacity, 64)
             ft_warm == AtMost(o.capacity, 32)
             two == <<Shape("prefill", <<256, 256>>, <<>>, <<>>, 0),
                      Shape("decode", <<128, 128>>, <<>>, <<>>, 1)>>
             three == IF 128 + ft <= o.batch THEN <<Coserve(<<128>>, <<ft>>)>> ELSE <<>>
             four == IF 128 + ft_warm <= o.batch
                     THEN <<Shape("decode", <<64, 64>>, <<ft_warm>>, <<>>, 1)>> ELSE <<>>
  <1>1. \A x, y : IsSeq(<<x, y>>) /\ IsSeq(<<x>>)
    BY DEF IsSeq
  <1>2. \A x : ShapeOk(Coserve(<<128>>, <<x>>)) /\ ShapeOk(Shape("decode", <<64, 64>>, <<x>>, <<>>, 1))
    <2> TAKE x
    <2>1. IsSeq(<<128>>) /\ IsSeq(<<x>>) /\ IsSeq(<<64, 64>>) /\ IsSeq(<<>>)
      BY <1>1, OneFacts
    <2>2. ShapeOk(Shape("coserve", <<128>>, <<x>>, <<>>, 0))
      BY <2>1, ShapeIsOk
    <2>3. ShapeOk(Shape("decode", <<64, 64>>, <<x>>, <<>>, 1))
      BY <2>1, ShapeIsOk
    <2> QED BY <2>2, <2>3 DEF Coserve
  <1>3. ShapeOk(Shape("prefill", <<256, 256>>, <<>>, <<>>, 0))
    <2>1. IsSeq(<<256, 256>>) /\ IsSeq(<<>>)
      BY <1>1, OneFacts
    <2> QED BY <2>1, ShapeIsOk
  <1>4. ShapeOk(Shape("decode", <<128, 128>>, <<>>, <<>>, 1))
    <2>1. IsSeq(<<128, 128>>) /\ IsSeq(<<>>)
      BY <1>1, OneFacts
    <2> QED BY <2>1, ShapeIsOk
  <1>5. Warmup(o) = two \o three \o four
    BY DEF Warmup
  <1> HIDE DEF ft, ft_warm
  <1>6. Shapes(two) /\ Shapes(three) /\ Shapes(four)
    BY <1>2, <1>3, <1>4, ShapesFew
  <1> HIDE DEF two, three, four
  <1>7. Shapes(Warmup(o))
    BY <1>5, <1>6, ShapesBehind
  <1>8. Shapes(FtOnlyIdleShapes(o))
    <2>1. IsSeq(Pieces(o, o.capacity, 64))
      <3>1. o.capacity \in Int
        BY DEF Option
      <3> QED BY <3>1, PiecesAreSeq
    <2>2. ShapeOk(Coserve(<<>>, Pieces(o, o.capacity, 64)))
      BY <2>1, OneFacts, ShapeIsOk DEF Coserve
    <2> QED BY <2>2, ShapesFew DEF FtOnlyIdleShapes
  <1> QED BY <1>7, <1>8

\* The whole of it.
LEMMA PlanOk ==
    ASSUME NEW o \in Option
    PROVE  Shapes(Plan(o))
  <1> DEFINE sweep == Recorded(o)
             n == o.repeats * Len(sweep)
             again == [i \in 1..n |-> sweep[((i - 1) % Len(sweep)) + 1]]
  <1>1. Shapes(sweep)
    BY PrefillShapesOk, DecodeShapesOk, CoserveShapesOk, MixedShapesOk, FtOnDecodeShapesOk,
       WarmupOk, ShapesBehind DEF Recorded
  <1>2. /\ Len(sweep) \in Nat /\ o.repeats \in Nat
        /\ \A i \in 1 .. Len(sweep) : ShapeOk(sweep[i])
    BY <1>1, PlanNumbers, IsSeqFacts DEF Shapes
  <1>3. o.repeats = 0 => Plan(o) = <<>>
    BY DEF Plan
  <1>4. o.repeats # 0 => Plan(o) = Warmup(o) \o again
    BY DEF Plan
  <1> HIDE DEF sweep
  <1>5. n \in Nat
    BY <1>2
  <1>6. ASSUME NEW i \in 1 .. n PROVE ShapeOk(again[i])
    <2>1. Len(sweep) # 0
      <3>1. Len(sweep) = 0 => n = 0
        BY <1>2
      <3> HIDE DEF n
      <3> QED BY <1>5, <1>6, <3>1
    <2>2. (i - 1) % Len(sweep) \in 0 .. Len(sweep) - 1
      <3>1. i - 1 \in Nat /\ Len(sweep) \in Nat \ {0}
        <4> HIDE DEF n
        <4> QED BY <1>2, <1>5, <2>1
      <3> QED BY <3>1
    <2>3. ((i - 1) % Len(sweep)) + 1 \in 1 .. Len(sweep)
      BY <1>2, <2>2
    <2>4. again[i] = sweep[((i - 1) % Len(sweep)) + 1]
      <3> HIDE DEF n
      <3> QED OBVIOUS
    <2> HIDE DEF again
    <2> QED BY <1>2, <2>3, <2>4
  <1>7. DOMAIN again = 1 .. n /\ again = [i \in 1 .. n |-> again[i]]
    OBVIOUS
  <1> HIDE DEF again, n
  <1>8. Shapes(again)
    BY <1>5, <1>6, <1>7, ShapesMade
  <1> QED BY <1>3, <1>4, <1>8, WarmupOk, ShapesFew, ShapesBehind

\* What is enqueued before a step.
LEMMA WaveIsSeq ==
    ASSUME NEW s, ShapeOk(s), NEW k
    PROVE  IsSeq(WaveOf(s, k).inf) /\ IsSeq(WaveOf(s, k).ft)
  BY OneFacts DEF WaveOf, Wave, ShapeOk
-----------------------------------------------------------------------------
(***************************************************************************)
(* What the base scheduler makes of a queue.                               *)
(***************************************************************************)
Given(queue, taken, i) == IF i <= taken THEN Share(queue, i) ELSE 0
Ran(queue, taken, i) == Given(queue, taken, i) > 0
SamplesOf(queue, taken) ==
    {queue[i].id : i \in {j \in DOMAIN queue : queue[j].ft /\ Ran(queue, taken, j)}} \cap Samples

\* The queues and the step behind it.
Outcome(queue, taken, judged, bwd) ==
    /\ IsSeq(running') /\ IsSeq(waiting')
    /\ \A k \in DOMAIN running' : \E j \in DOMAIN queue :
          /\ running'[k] = [queue[j] EXCEPT !.computed = @ + Given(queue, taken, j)]
          /\ j <= Len(running) \/ Ran(queue, taken, j)
    /\ \A k \in DOMAIN waiting' : \E j \in DOMAIN queue :
          /\ waiting'[k] = queue[j] /\ j > Len(running)
          /\ ~Ran(queue, taken, j) /\ ~queue[j].ft
    /\ pool' = pool \ SamplesOf(queue, taken)
    /\ step' = NoStep => \A j \in DOMAIN queue : ~Ran(queue, taken, j)
    /\ step' # NoStep =>
          /\ step'.feats = FeaturesFromOutput(Grant(queue, taken), bwd)
          /\ step'.samples = SamplesOf(queue, taken)
          /\ step'.judged = judged
          /\ step'.refused = (taken < Len(queue))
          /\ step'.cut = \E i \in DOMAIN queue :
                queue[i].ft /\ Given(queue, taken, i) \notin {0, Need(queue[i])}
          /\ step'.last = \E i \in DOMAIN running :
                Need(running[i]) = 1 /\ IsPrefill(Grant(queue, taken)[i])

\* What Put does, said of each request.
LEMMA PutFacts ==
    ASSUME NEW queue, IsSeq(queue), NEW taken, NEW judged, NEW bwd,
           Put(queue, taken, judged, bwd)
    PROVE  Outcome(queue, taken, judged, bwd)
  <1> DEFINE granted == Grant(queue, taken)
             D == DOMAIN queue
             n == Len(queue)
             advanced == [i \in D |-> [queue[i] EXCEPT !.computed = @ + granted[i].n]]
             here == {i \in D : i <= Len(running) \/ granted[i].n > 0}
             there == {i \in D : i > Len(running) /\ ~(granted[i].n > 0) /\ ~queue[i].ft}
  <1>1. \A i \in D : granted[i].n = Given(queue, taken, i)
    BY DEF Grant, Given
  <1>2. D = 1 .. n /\ n \in Nat
    BY IsSeqFacts
  <1> HIDE DEF granted
  <1>3. IsSeq(advanced) /\ DOMAIN advanced = D
    <2>1. DOMAIN advanced = 1 .. n /\ advanced = [i \in 1 .. n |-> advanced[i]]
      BY <1>2
    <2> HIDE DEF advanced, n, D
    <2> QED BY <1>2, <2>1, FunSeq
  <1>4. running' = Picked(advanced, here) /\ waiting' = Picked(queue, there)
    BY DEF Put, granted
  <1>5. IsSeq(running') /\ IsSeq(waiting')
    <2> HIDE DEF advanced, here, there
    <2> QED BY <1>3, <1>4, PickedFacts
  <1>6. \A k \in DOMAIN running' : \E j \in D : j \in here /\ running'[k] = advanced[j]
    <2> HIDE DEF advanced, here
    <2>1. \A k \in DOMAIN running' : \E j \in DOMAIN advanced : j \in here /\ running'[k] = advanced[j]
      BY <1>3, <1>4, PickedFacts
    <2> QED BY <1>3, <2>1
  <1>7. \A k \in DOMAIN waiting' : \E j \in D : j \in there /\ waiting'[k] = queue[j]
    <2> HIDE DEF there
    <2> QED BY <1>4, PickedFacts
  <1>8. \A k \in DOMAIN running' : \E j \in D :
           /\ running'[k] = [queue[j] EXCEPT !.computed = @ + Given(queue, taken, j)]
           /\ j <= Len(running) \/ Ran(queue, taken, j)
    BY <1>1, <1>6 DEF Ran
  <1>9. \A k \in DOMAIN waiting' : \E j \in D :
                 /\ waiting'[k] = queue[j] /\ j > Len(running)
                 /\ ~Ran(queue, taken, j) /\ ~queue[j].ft
    BY <1>1, <1>7 DEF Ran
  <1>10. {queue[i].id : i \in {j \in D : queue[j].ft /\ granted[j].n > 0}} \cap Samples
            = SamplesOf(queue, taken)
    BY <1>1 DEF SamplesOf, Ran
  <1>11. pool' = pool \ SamplesOf(queue, taken)
    BY <1>10 DEF Put, granted
  <1>12. (\A i \in D : ~(granted[i].n > 0)) <=> \A i \in D : ~Ran(queue, taken, i)
    BY <1>1 DEF Ran
  <1>13. (\E i \in D : queue[i].ft /\ granted[i].n \notin {0, Need(queue[i])})
            <=> \E i \in D : queue[i].ft /\ Given(queue, taken, i) \notin {0, Need(queue[i])}
    BY <1>1
  <1> DEFINE last == \E i \in DOMAIN running : Need(running[i]) = 1 /\ IsPrefill(granted[i])
             cut == \E i \in D : queue[i].ft /\ granted[i].n \notin {0, Need(queue[i])}
             none == \A i \in D : ~(granted[i].n > 0)
             made == [feats |-> FeaturesFromOutput(granted, bwd),
                      samples |-> SamplesOf(queue, taken),
                      cut |-> cut, refused |-> taken < Len(queue), last |-> last,
                      judged |-> judged]
  <1>14. step' = IF none THEN NoStep ELSE made
    BY <1>10 DEF Put, granted
  <1> HIDE DEF none, last, cut
  <1>15. made # NoStep
    BY DEF NoStep
  <1>16. step' = NoStep => \A j \in D : ~Ran(queue, taken, j)
    BY <1>12, <1>14, <1>15 DEF none
  <1>17. step' # NoStep =>
           /\ step'.feats = FeaturesFromOutput(granted, bwd)
           /\ step'.samples = SamplesOf(queue, taken)
           /\ step'.judged = judged
           /\ step'.refused = (taken < Len(queue))
           /\ step'.cut = cut
           /\ step'.last = last
    BY <1>14
  <1>18. cut = \E i \in D : queue[i].ft /\ Given(queue, taken, i) \notin {0, Need(queue[i])}
    BY <1>13 DEF cut
  <1> QED BY <1>5, <1>8, <1>9, <1>11, <1>16, <1>17, <1>18 DEF last, granted, Outcome

\* A queue between two steps.
Rests(base) == IsSeq(base) /\ \A i \in DOMAIN base : Resting(base[i])

\* The requests of the clients, and behind them what was admitted.
Behind(base, S) ==
    LET queue == base \o SampleReqs(S)
        L == Len(base)
    IN  /\ IsSeq(queue) /\ L \in Nat /\ Cardinality(S) \in Nat
        /\ Len(queue) = L + Cardinality(S) /\ DOMAIN queue = 1 .. Len(queue)
        /\ \A i \in 1 .. L : queue[i] = base[i]
        /\ \A i \in DOMAIN queue : ReqOk(queue[i])
        /\ \A i \in DOMAIN queue : i > L =>
              /\ queue[i].ft /\ queue[i].id \in S
              /\ queue[i].computed = 0 /\ queue[i].computed < queue[i].len
              /\ Need(queue[i]) = SampleLen[queue[i].id]
              /\ SampleLen[queue[i].id] \in Nat \ {0}
        /\ \A i, j \in DOMAIN queue :
              i > L /\ j > L /\ queue[i].id = queue[j].id => i = j

\* What admission adds keeps the queue a queue, with every sample in it once.
LEMMA QueueFacts ==
    ASSUME NEW base, Rests(base), NEW S \in SUBSET Samples
    PROVE  Behind(base, S)
  <1> DEFINE L == Len(base)
             q == SampleReqs(S)
             queue == base \o q
             c == Cardinality(S)
             e(i) == SampleAt(S, i)
  <1>1. /\ c \in Nat /\ IsSeq(q) /\ Len(q) = c
        /\ \A i \in 1 .. c : /\ e(i) \in S /\ SampleLen[e(i)] \in Nat \ {0}
                             /\ q[i] = Req(e(i), SampleLen[e(i)], 1, TRUE)
        /\ \A i, j \in 1 .. c : e(i) = e(j) => i = j
    BY SampleReqsFacts
  <1>2. L \in Nat /\ DOMAIN base = 1 .. L /\ IsSeq(base)
    BY IsSeqFacts DEF Rests
  <1> HIDE DEF q, c, e
  <1>3. /\ IsSeq(queue) /\ Len(queue) = L + c
        /\ \A j \in 1 .. L : queue[j] = base[j]
        /\ \A j \in 1 .. c : queue[L + j] = q[j]
    <2>1. IsSeq(q) /\ Len(q) = c
      BY <1>1
    <2>2. /\ IsSeq(queue) /\ Len(queue) = L + Len(q)
          /\ \A j \in 1 .. L : queue[j] = base[j]
          /\ \A j \in 1 .. Len(q) : queue[L + j] = q[j]
      <3>1. IsSeq(base) /\ IsSeq(q)
        BY <1>2, <2>1
      <3> QED BY <3>1, ConcatFacts
    <2> HIDE DEF queue, L
    <2> QED BY <2>1, <2>2
  <1>4. DOMAIN queue = 1 .. Len(queue)
    BY <1>3, IsSeqFacts
  <1>5. ASSUME NEW i \in 1 .. c
        PROVE  /\ ReqOk(q[i]) /\ Need(q[i]) = SampleLen[e(i)] /\ q[i].computed = 0
               /\ q[i].id = e(i) /\ q[i].len = SampleLen[e(i)] /\ q[i].ft
    <2> DEFINE d == e(i)
               l == SampleLen[d]
    <2>1. l \in Nat \ {0} /\ q[i] = Req(d, l, 1, TRUE)
      BY <1>1
    <2> HIDE DEF d, l
    <2> DEFINE yes == TRUE
               r == Req(d, l, 1, yes)
    <2>2. /\ ReqOk(r) /\ Need(r) = l /\ r.computed = 0
          /\ r.id = d /\ r.len = l /\ r.ft = yes
      <3>1. l \in Nat \ {0} /\ yes \in BOOLEAN
        BY <2>1
      <3> HIDE DEF yes
      <3> QED BY <3>1, ReqFacts
    <2> HIDE DEF r
    <2> QED BY <2>1, <2>2 DEF d, l, r
  <1> HIDE DEF queue, L
  <1>6. ASSUME NEW i \in DOMAIN queue, i > L
        PROVE  i - L \in 1 .. c /\ queue[i] = q[i - L]
    <2>1. i - L \in 1 .. c /\ i = L + (i - L)
      BY <1>1, <1>2, <1>3, <1>4, <1>6
    <2> QED BY <1>3, <2>1
  <1>7. ASSUME NEW i \in DOMAIN queue, i > L
        PROVE  /\ queue[i].ft /\ queue[i].id \in S
               /\ queue[i].computed = 0 /\ queue[i].computed < queue[i].len
               /\ Need(queue[i]) = SampleLen[queue[i].id]
               /\ SampleLen[queue[i].id] \in Nat \ {0}
               /\ ReqOk(queue[i])
    <2>1. i - L \in 1 .. c /\ queue[i] = q[i - L]
      BY <1>6, <1>7
    <2>2. e(i - L) \in S /\ SampleLen[e(i - L)] \in Nat \ {0}
      BY <1>1, <2>1
    <2> QED BY <1>5, <2>1, <2>2
  <1>8. ASSUME NEW i \in DOMAIN queue, NEW j \in DOMAIN queue, i > L, j > L,
               queue[i].id = queue[j].id
        PROVE  i = j
    <2>1. /\ i - L \in 1 .. c /\ queue[i] = q[i - L]
          /\ j - L \in 1 .. c /\ queue[j] = q[j - L]
      BY <1>6, <1>8
    <2>2. e(i - L) = e(j - L)
      BY <1>5, <1>8, <2>1
    <2>3. i - L = j - L
      BY <1>1, <2>1, <2>2
    <2> QED BY <1>2, <1>3, <1>4, <1>1, <2>3
  <1>9. \A i \in DOMAIN queue : ReqOk(queue[i])
    <2> SUFFICES ASSUME NEW i \in DOMAIN queue PROVE ReqOk(queue[i])
      OBVIOUS
    <2>1. CASE i > L
      BY <1>7, <2>1
    <2>2. CASE ~(i > L)
      <3>1. i \in 1 .. L
        BY <1>2, <1>1, <1>3, <1>4, <2>2
      <3> QED BY <1>2, <1>3, <3>1 DEF Rests, Resting
    <2> QED BY <2>1, <2>2
  <1> QED BY <1>1, <1>2, <1>3, <1>4, <1>7, <1>8, <1>9 DEF queue, L, q, c, Behind

\* One sample has the rows of its length.
LEMMA LensOfOne ==
    ASSUME NEW s \in Samples
    PROVE  SumLens({s}) = SampleLen[s] /\ SampleLen[s] \in Nat \ {0}
  <1>1. IsFiniteSet({s})
    BY FS_Singleton
  <1>2. /\ SumFunctionOnSet(SampleLen, {s})
             = SampleLen[Pick({s})] + SumFunctionOnSet(SampleLen, {s} \ {Pick({s})})
        /\ Pick({s}) \in {s}
    BY <1>1, SumRec
  <1>3. Pick({s}) = s /\ {s} \ {Pick({s})} = {}
    BY <1>2
  <1>4. SumLens({}) = 0
    BY LensFacts
  <1>5. SampleLen[s] \in Nat \ {0}
    BY StepAssumption
  <1>6. SumLens({s}) = SampleLen[s] + SumLens({})
    BY <1>2, <1>3 DEF SumLens
  <1> QED BY <1>4, <1>5, <1>6

\* Behind the requests of the clients, every sample admitted finds its budget.
LEMMA WholeWithSamples ==
    ASSUME NEW base, base = running \o waiting, Rests(base),
           options.batch \in Nat,
           NEW S \in SUBSET Samples, S # {},
           SumLens(S) <= options.batch - CurrentStepFeatures.t_in - CurrentStepFeatures.b_d
    PROVE  Whole(base \o SampleReqs(S))
  <1> DEFINE queue == base \o SampleReqs(S)
             L == Len(base)
             M == Len(queue)
             D == DOMAIN queue
             n == Needs(queue)
             A == 1 .. L
             B == D \ A
             t == CurrentStepFeatures.t_in
             d == CurrentStepFeatures.b_d
             e == [i \in D |-> queue[i].id]
             b == options.batch
  <1>1. /\ IsSeq(queue) /\ L \in Nat /\ M \in Nat /\ L <= M /\ D = 1 .. M
        /\ \A i \in 1 .. L : queue[i] = base[i]
        /\ \A i \in D : ReqOk(queue[i])
        /\ \A i \in D : i > L =>
              /\ queue[i].id \in S
              /\ Need(queue[i]) = SampleLen[queue[i].id]
        /\ \A i, j \in D : i > L /\ j > L /\ queue[i].id = queue[j].id => i = j
    <2>2. /\ IsSeq(queue) /\ L \in Nat /\ Cardinality(S) \in Nat
          /\ M = L + Cardinality(S) /\ D = 1 .. M
          /\ \A i \in 1 .. L : queue[i] = base[i]
          /\ \A i \in D : ReqOk(queue[i])
          /\ \A i \in D : i > L =>
                /\ queue[i].id \in S
                /\ Need(queue[i]) = SampleLen[queue[i].id]
          /\ \A i, j \in D : i > L /\ j > L /\ queue[i].id = queue[j].id => i = j
      <3>1. Behind(base, S)
        BY QueueFacts
      <3> QED BY <3>1 DEF Behind
    <2> HIDE DEF queue, L, M, D
    <2>3. M \in Nat /\ L <= M
      BY <2>2
    <2> QED BY <2>2, <2>3
  <1>2. DOMAIN base = 1 .. L
    BY IsSeqFacts DEF Rests
  <1>3. /\ t \in Nat /\ d \in Nat
        /\ t + d < b => SumFunctionOnSet(Needs(base), 1 .. L) = t + d
    <2>1. \A i \in DOMAIN base : Need(base[i]) \in Nat \ {0}
      <3> TAKE i \in DOMAIN base
      <3>1. Need(base[i]) \in Nat
        BY DEF Rests, Resting, ReqOk
      <3>2. Need(base[i]) > 0
        BY DEF Rests, Resting
      <3> QED BY <3>1, <3>2
    <2>2. IsSeq(base)
      BY DEF Rests
    <2> QED BY <2>1, <2>2, BudgetLeft
  <1>4. SumLens(S) >= 1
    <2>1. PICK s \in S : TRUE
      OBVIOUS
    <2>2. {s} \in SUBSET S
      BY <2>1
    <2>3. SumLens({s}) <= SumLens(S) /\ SumLens({s}) \in Nat /\ SumLens(S) \in Nat
      BY <2>2, LensFacts
    <2>4. SumLens({s}) = SampleLen[s] /\ SampleLen[s] \in Nat \ {0}
      BY <2>1, LensOfOne
    <2> QED BY <2>3, <2>4
  <1> HIDE DEF queue, L, t, d
  <1>5. SumLens(S) \in Nat /\ t + d + SumLens(S) <= b /\ t + d < b
    <2>1. SumLens(S) \in Nat
      BY LensFacts
    <2> QED BY <1>3, <1>4, <2>1 DEF t, d
  <1>6. \A i \in D : n[i] = Need(queue[i]) /\ n[i] \in Nat
    BY <1>1 DEF Needs, ReqOk
  <1> HIDE DEF n
  <1>7. IsFiniteSet(D) /\ A \in SUBSET D /\ IsFiniteSet(A) /\ IsFiniteSet(B)
    <2>1. IsFiniteSet(D)
      BY <1>1, FS_Interval
    <2>2. A \in SUBSET D
      BY <1>1
    <2> QED BY <2>1, <2>2, FS_Subset
  <1>8. \A i \in B : i \in D /\ i > L
    BY <1>1
  <1>9. SumFunctionOnSet(n, A) = t + d
    <2>1. \A i \in A : n[i] = Needs(base)[i]
      BY <1>1, <1>2, <1>6, <1>7 DEF Needs
    <2>2. SumFunctionOnSet(n, A) = SumFunctionOnSet(Needs(base), A)
      <3> HIDE DEF A
      <3> QED BY <1>7, <2>1, SumSame
    <2> QED BY <1>3, <1>5, <2>2
  <1> HIDE DEF D
  <1>10. SumFunctionOnSet(n, B) \in Nat /\ SumFunctionOnSet(n, B) <= SumLens(S)
    <2> DEFINE T == {e[i] : i \in B}
    <2>0. \A i \in D : e[i] = queue[i].id
      OBVIOUS
    <2> HIDE DEF B, e
    <2>1. \A i \in B : n[i] = SampleLen[e[i]] /\ n[i] \in Nat /\ e[i] \in S
      BY <1>1, <1>6, <1>8, <2>0
    <2>4. \A i, j \in B : e[i] = e[j] => i = j
      BY <1>1, <1>8, <2>0
    <2>5. T \in SUBSET S
      BY <2>1
    <2>6. \A i \in B : n[i] = SampleLen[e[i]] /\ n[i] \in Nat
      BY <2>1
    <2>7. IsFiniteSet(B)
      BY <1>7
    <2>2. SumFunctionOnSet(n, B) = SumFunctionOnSet(SampleLen, T)
      BY <2>4, <2>6, <2>7, SumImage
    <2>3. SumLens(T) <= SumLens(S) /\ SumLens(T) \in Nat
      <3> HIDE DEF T
      <3> QED BY <2>5, LensFacts
    <2> QED BY <2>2, <2>3 DEF SumLens
  <1>11. \A U \in SUBSET D :
            /\ SumFunctionOnSet(n, D) = SumFunctionOnSet(n, U) + SumFunctionOnSet(n, D \ U)
            /\ SumFunctionOnSet(n, D) \in Nat
            /\ SumFunctionOnSet(n, U) \in Nat
            /\ SumFunctionOnSet(n, D \ U) \in Nat
    <2>1. IsFiniteSet(D) /\ \A i \in D : n[i] \in Nat
      BY <1>6, <1>7
    <2> QED BY <2>1, SumParts
  <1>12. SumFunctionOnSet(n, D) <= b /\ SumFunctionOnSet(n, D) \in Nat
    <2> HIDE DEF A
    <2>2. /\ SumFunctionOnSet(n, D) = SumFunctionOnSet(n, A) + SumFunctionOnSet(n, D \ A)
          /\ SumFunctionOnSet(n, D) \in Nat
      BY <1>7, <1>11
    <2> QED BY <1>3, <1>5, <1>9, <1>10, <2>2 DEF B
  <1>13. ASSUME NEW i \in D PROVE SumFunctionOnSet(n, 1 .. i) <= b
    <2> DEFINE C == 1 .. i
    <2>1. C \in SUBSET D
      BY <1>1, <1>13
    <2> HIDE DEF C
    <2>2. /\ SumFunctionOnSet(n, D) = SumFunctionOnSet(n, C) + SumFunctionOnSet(n, D \ C)
          /\ SumFunctionOnSet(n, C) \in Nat /\ SumFunctionOnSet(n, D \ C) \in Nat
      BY <1>11, <2>1
    <2> QED BY <1>12, <2>2 DEF C
  <1>14. \A i \in D : Share(queue, i) = Need(queue[i])
    <2>1. \A i \in DOMAIN queue : Need(queue[i]) \in Nat
      BY <1>1 DEF ReqOk, D
    <2>2. \A i \in DOMAIN queue : SumFunctionOnSet(Needs(queue), 1 .. i) <= b
      BY <1>13 DEF n, D
    <2> QED BY <1>1, <2>1, <2>2, ShareFacts DEF D
  <1> QED BY <1>14 DEF Whole, D, queue

SamplesFit(base, queue) ==
    \A i \in DOMAIN queue : i > Len(base) => Share(queue, i) = Need(queue[i])

AllOrNothing(queue, taken, S, bwd) ==
    /\ SamplesOf(queue, taken) \in SUBSET S
    /\ FeaturesFromOutput(Grant(queue, taken), bwd).t_ft = SumLens(SamplesOf(queue, taken))
    /\ ~\E i \in DOMAIN queue :
          queue[i].ft /\ Given(queue, taken, i) \notin {0, Need(queue[i])}

\* The samples of a step are whole, and its finetuning tokens are theirs.
LEMMA SamplesAreWhole ==
    ASSUME NEW base, Rests(base), NEW S \in SUBSET Samples,
           NEW queue, queue = base \o SampleReqs(S), NEW taken \in Nat,
           SamplesFit(base, queue), options.batch \in Nat, NEW bwd
    PROVE  AllOrNothing(queue, taken, S, bwd)
  <1> DEFINE L == Len(base)
             D == DOMAIN queue
             out == SamplesOf(queue, taken)
             granted == Grant(queue, taken)
             g == [i \in DOMAIN granted |-> granted[i].n]
             prefill == {i \in DOMAIN granted : IsPrefill(granted[i])}
             F == {i \in prefill : granted[i].req.ft}
             J == {i \in D : i > L /\ i <= taken}
             e == [i \in D |-> queue[i].id]
  <1>1. /\ L \in Nat /\ Len(queue) \in Nat /\ L <= Len(queue) /\ D = 1 .. Len(queue)
        /\ \A i \in 1 .. L : queue[i] = base[i] /\ i \in DOMAIN base
        /\ \A i \in D : ReqOk(queue[i])
        /\ \A i \in D : i > L =>
              /\ queue[i].ft /\ queue[i].id \in S /\ queue[i].computed < queue[i].len
              /\ Need(queue[i]) = SampleLen[queue[i].id]
              /\ SampleLen[queue[i].id] \in Nat \ {0}
        /\ \A i, j \in D : i > L /\ j > L /\ queue[i].id = queue[j].id => i = j
    <2>1. Behind(base, S)
      BY QueueFacts
    <2>2. DOMAIN base = 1 .. L
      BY IsSeqFacts DEF Rests
    <2>3. /\ L \in Nat /\ Cardinality(S) \in Nat /\ Len(queue) = L + Cardinality(S)
          /\ D = 1 .. Len(queue)
      BY <2>1 DEF Behind
    <2>4. Len(queue) \in Nat /\ L <= Len(queue)
      <3> HIDE DEF L, D
      <3> QED BY <2>3
    <2> QED BY <2>1, <2>2, <2>3, <2>4 DEF Behind
  <1>2. \A i \in D : i <= L => ~queue[i].ft
    <2> TAKE i \in D
    <2> HAVE i <= L
    <2>1. i \in 1 .. L
      BY <1>1
    <2> QED BY <1>1, <2>1 DEF Rests, Resting
  <1>3. /\ DOMAIN granted = D
        /\ \A i \in D : granted[i].req = queue[i] /\ granted[i].n = Given(queue, taken, i)
    BY DEF Grant, Given
  <1>4. \A i \in D : g[i] = Given(queue, taken, i)
    BY <1>3
  <1>5. F = {i \in D : i > L}
    <2>1. \A i \in D : i > L => i \in F
      BY <1>1, <1>3 DEF IsPrefill
    <2>2. \A i \in F : i \in D /\ i > L
      BY <1>1, <1>2, <1>3
    <2> QED BY <2>1, <2>2
  <1> HIDE DEF granted, g, F, L, D
  <1>6. \A i \in D : i > L => Given(queue, taken, i) = IF i <= taken THEN Need(queue[i]) ELSE 0
    BY DEF Given, D, L, SamplesFit
  <1>7. \A i \in J : /\ i \in D /\ i > L /\ i <= taken
                     /\ g[i] = SampleLen[queue[i].id] /\ g[i] \in Nat \ {0}
    BY <1>1, <1>4, <1>6
  <1>8. out = {e[i] : i \in J}
    <2> DEFINE K == {j \in D : queue[j].ft /\ Ran(queue, taken, j)}
    <2>1. K = J
      <3>1. \A j \in K : j \in J
        <4> TAKE j \in K
        <4>1. j \in D /\ queue[j].ft /\ Given(queue, taken, j) > 0
          BY DEF Ran
        <4>2. j > L
          BY <1>1, <1>2, <4>1
        <4>3. j <= taken
          BY <4>1 DEF Given
        <4> QED BY <4>1, <4>2, <4>3
      <3>2. \A j \in J : j \in K
        <4> TAKE j \in J
        <4>1. j \in D /\ j > L /\ g[j] \in Nat \ {0}
          BY <1>7
        <4>2. queue[j].ft
          BY <1>1, <4>1
        <4>3. Given(queue, taken, j) > 0
          BY <1>4, <4>1
        <4> QED BY <4>1, <4>2, <4>3 DEF Ran
      <3> QED BY <3>1, <3>2
    <2>2. out = {queue[i].id : i \in K} \cap Samples
      BY DEF SamplesOf, D
    <2>3. \A i \in J : e[i] = queue[i].id /\ queue[i].id \in Samples
      BY <1>1, <1>7
    <2> HIDE DEF J, K, e, out
    <2> QED BY <2>1, <2>2, <2>3
  <1>9. out \in SUBSET S
    <2>1. \A i \in J : e[i] \in S
      BY <1>1, <1>7
    <2> HIDE DEF J, e, out
    <2> QED BY <1>8, <2>1
  <1>10. IsFiniteSet(F) /\ J \in SUBSET F /\ IsFiniteSet(J) /\ IsFiniteSet(F \ J)
    <2>1. IsFiniteSet(D) /\ F \in SUBSET D /\ J \in SUBSET F
      <3>1. IsFiniteSet(D)
        BY <1>1, FS_Interval
      <3> QED BY <1>5, <3>1
    <2> HIDE DEF J
    <2> QED BY <2>1, FS_Subset
  <1>11. SumFunctionOnSet(g, F) = SumFunctionOnSet(g, J) + SumFunctionOnSet(g, F \ J)
    <2>1. \A i \in F : g[i] \in Nat
      <3> TAKE i \in F
      <3>1. i \in D /\ i > L
        BY <1>5
      <3> QED BY <1>1, <1>4, <1>6, <3>1
    <2>2. IsFiniteSet(F) /\ \A i \in F : g[i] \in Nat
      BY <1>10, <2>1
    <2>3. \A U \in SUBSET F :
            /\ SumFunctionOnSet(g, F) = SumFunctionOnSet(g, U) + SumFunctionOnSet(g, F \ U)
            /\ SumFunctionOnSet(g, F) \in Nat
            /\ SumFunctionOnSet(g, U) \in Nat
            /\ SumFunctionOnSet(g, F \ U) \in Nat
      BY <2>2, SumParts
    <2> HIDE DEF J
    <2> QED BY <1>10, <2>3
  <1>12. SumFunctionOnSet(g, F \ J) = 0
    <2> DEFINE R == F \ J
    <2>1. \A i \in R : g[i] = 0
      <3> TAKE i \in R
      <3>1. i \in D /\ i > L /\ ~(i <= taken)
        BY <1>5
      <3> QED BY <1>4, <1>6, <3>1
    <2>2. IsFiniteSet(R) /\ 0 \in {0, 1}
      BY <1>10
    <2> HIDE DEF R
    <2>3. SumFunctionOnSet(g, R) = IF 0 = 1 THEN Cardinality(R) ELSE 0
      BY <2>1, <2>2, SumConstant
    <2> QED BY <2>3 DEF R
  <1>13. SumFunctionOnSet(g, J) = SumLens(out) /\ SumLens(out) \in Nat
    <2>1. \A i \in J : g[i] = SampleLen[e[i]] /\ g[i] \in Nat
      BY <1>7
    <2>2. \A i, j \in J : e[i] = e[j] => i = j
      BY <1>1, <1>7
    <2> HIDE DEF J, e
    <2>3. IsFiniteSet(J)
      BY <1>10
    <2>4. SumFunctionOnSet(g, J) = SumFunctionOnSet(SampleLen, {e[i] : i \in J})
      BY <2>1, <2>2, <2>3, SumImage, SMTT(40)
    <2>5. out \in SUBSET Samples
      BY <1>9
    <2> HIDE DEF out
    <2>6. SumLens(out) \in Nat
      BY <2>5, LensFacts
    <2> QED BY <1>8, <2>4, <2>6 DEF SumLens
  <1>14. FeaturesFromOutput(Grant(queue, taken), bwd).t_ft = SumFunctionOnSet(g, F)
    BY DEF FeaturesFromOutput, Features, g, F, granted
  <1>15. ~\E i \in D : queue[i].ft /\ Given(queue, taken, i) \notin {0, Need(queue[i])}
    <2> SUFFICES ASSUME NEW i \in D, queue[i].ft
                 PROVE  Given(queue, taken, i) \in {0, Need(queue[i])}
      OBVIOUS
    <2>1. i > L
      BY <1>1, <1>2
    <2> QED BY <1>6, <2>1
  <1>16. FeaturesFromOutput(Grant(queue, taken), bwd).t_ft = SumLens(out)
    BY <1>11, <1>12, <1>13, <1>14
  <1> QED BY <1>9, <1>15, <1>16 DEF D, AllOrNothing

Unstarted == \A i \in DOMAIN waiting : Untouched(waiting[i])

LastChunk(queue, taken) ==
    \E i \in DOMAIN running : Need(running[i]) = 1 /\ IsPrefill(Grant(queue, taken)[i])

AsJudged(queue, taken, bwd) ==
    LET f == FeaturesFromOutput(Grant(queue, taken), bwd)
    IN  /\ f.t_in - f.t_ft = CurrentStepFeatures.t_in
        /\ f.b_d = CurrentStepFeatures.b_d

\* With all of its queue in it, and no last chunk of one token, the step is the
\* one admission reasoned on.
LEMMA StepIsJudged ==
    ASSUME NEW base, base = running \o waiting, Rests(base), IsSeq(running), IsSeq(waiting),
           Unstarted,
           NEW S \in SUBSET Samples,
           NEW queue, queue = base \o SampleReqs(S), NEW taken \in Nat,
           taken >= Len(queue), Whole(queue), options.batch \in Nat, NEW bwd,
           CurrentStepFeatures.t_in + CurrentStepFeatures.b_d < options.batch,
           ~LastChunk(queue, taken)
    PROVE  AsJudged(queue, taken, bwd)
  <1> DEFINE L == Len(base)
             D == DOMAIN queue
             granted == Grant(queue, taken)
             g == [i \in DOMAIN granted |-> granted[i].n]
             prefill == {i \in DOMAIN granted : IsPrefill(granted[i])}
             F == {i \in prefill : granted[i].req.ft}
             P == Prefill(base)
             n == Needs(base)
             f == FeaturesFromOutput(Grant(queue, taken), bwd)
             t == CurrentStepFeatures.t_in
             d == CurrentStepFeatures.b_d
  <1>1. /\ L \in Nat /\ Len(queue) \in Nat /\ L <= Len(queue) /\ D = 1 .. Len(queue)
        /\ DOMAIN base = 1 .. L
        /\ \A i \in 1 .. L : queue[i] = base[i]
        /\ \A i \in D : ReqOk(queue[i])
        /\ \A i \in D : i > L => queue[i].ft /\ queue[i].computed < queue[i].len
    <2>1. Behind(base, S)
      BY QueueFacts
    <2>2. DOMAIN base = 1 .. L
      BY IsSeqFacts DEF Rests
    <2>3. /\ L \in Nat /\ Cardinality(S) \in Nat /\ Len(queue) = L + Cardinality(S)
          /\ D = 1 .. Len(queue)
      BY <2>1 DEF Behind
    <2>4. Len(queue) \in Nat /\ L <= Len(queue)
      <3> HIDE DEF L, D
      <3> QED BY <2>3
    <2> QED BY <2>1, <2>2, <2>3, <2>4 DEF Behind
  <1>2. /\ Len(running) \in Nat /\ DOMAIN running = 1 .. Len(running)
        /\ \A i \in 1 .. Len(running) : base[i] = running[i]
        /\ \A i \in 1 .. L : i > Len(running) => base[i].computed = 0
        /\ Len(running) <= L
    <2>1. /\ Len(running) \in Nat /\ DOMAIN running = 1 .. Len(running)
          /\ Len(waiting) \in Nat /\ DOMAIN waiting = 1 .. Len(waiting)
      BY IsSeqFacts
    <2>2. /\ L = Len(running) + Len(waiting)
          /\ \A j \in 1 .. Len(running) : base[j] = running[j]
          /\ \A j \in 1 .. Len(waiting) : base[Len(running) + j] = waiting[j]
      BY ConcatFacts
    <2> HIDE DEF L
    <2>3. ASSUME NEW i \in 1 .. L, i > Len(running) PROVE base[i].computed = 0
      <3>1. i - Len(running) \in 1 .. Len(waiting) /\ i = Len(running) + (i - Len(running))
        BY <2>1, <2>2, <2>3
      <3>2. base[i] = waiting[i - Len(running)]
        BY <2>2, <3>1
      <3> QED BY <2>1, <3>1, <3>2 DEF Unstarted, Untouched
    <2> QED BY <2>1, <2>2, <2>3
  <1>3. /\ DOMAIN granted = D
        /\ \A i \in D : granted[i].req = queue[i] /\ granted[i].n = Need(queue[i])
    <2>1. DOMAIN granted = D
      BY DEF Grant
    <2>2. ASSUME NEW i \in D PROVE granted[i].req = queue[i] /\ granted[i].n = Need(queue[i])
      <3>1. i <= taken
        BY <1>1, <2>2
      <3>2. granted[i].req = queue[i] /\ granted[i].n = Share(queue, i)
        BY <2>2, <3>1 DEF Grant
      <3> QED BY <2>2, <3>2 DEF Whole
    <2> QED BY <2>1, <2>2
  <1>4. \A i \in D : g[i] = Need(queue[i]) /\ g[i] \in Nat
    <2>1. \A i \in D : Need(queue[i]) \in Nat
      BY <1>1 DEF ReqOk
    <2>2. \A i \in D : g[i] = Need(queue[i])
      BY <1>3
    <2> QED BY <2>1, <2>2
  <1>5. \A i \in 1 .. L : /\ i \in D /\ ~queue[i].ft /\ queue[i] = base[i]
                          /\ ReqOk(base[i]) /\ Need(base[i]) > 0
    BY <1>1 DEF Rests, Resting
  <1>6. \A i \in 1 .. L : i \in P <=> base[i].computed < base[i].len
    <2> SUFFICES ASSUME NEW i \in 1 .. L PROVE i \in P <=> base[i].computed < base[i].len
      OBVIOUS
    <2>1. i \in P <=> i > Len(running) \/ Need(base[i]) > 1
      BY <1>1 DEF Prefill
    <2>2. /\ base[i].len \in Nat \ {0} /\ base[i].computed \in Nat
          /\ Need(base[i]) \in Nat /\ Need(base[i]) > 0
          /\ base[i].computed >= base[i].len => Need(base[i]) <= 1
      BY <1>5 DEF ReqOk
    <2>3. CASE i > Len(running)
      BY <1>2, <2>1, <2>2, <2>3
    <2>4. CASE ~(i > Len(running))
      <3>1. i \in 1 .. Len(running)
        BY <1>1, <1>2, <2>4
      <3>2. base[i].computed < base[i].len => Need(base[i]) # 1
        <4> SUFFICES ASSUME base[i].computed < base[i].len, Need(base[i]) = 1 PROVE FALSE
          OBVIOUS
        <4>1. i \in DOMAIN running /\ Need(running[i]) = 1
          BY <1>2, <3>1
        <4>2. granted[i].req = base[i]
          BY <1>3, <1>5
        <4>3. IsPrefill(granted[i])
          BY <4>2 DEF IsPrefill
        <4> QED BY <4>1, <4>3 DEF LastChunk
      <3> QED BY <2>1, <2>2, <2>4, <3>2
    <2> QED BY <2>3, <2>4
  <1>7. prefill = {i \in D : queue[i].computed < queue[i].len}
    BY <1>3 DEF IsPrefill
  <1>8. F = {i \in D : i > L}
    <2>1. \A i \in D : i > L => i \in F
      BY <1>1, <1>3 DEF IsPrefill
    <2>2. \A i \in F : i \in D /\ i > L
      <3> TAKE i \in F
      <3>1. i \in D /\ queue[i].ft
        BY <1>3
      <3>2. ~(i \in 1 .. L)
        BY <1>5, <3>1
      <3> QED BY <1>1, <3>1, <3>2
    <2> QED BY <2>1, <2>2
  <1>9. P \in SUBSET (1 .. L)
    BY <1>1 DEF Prefill
  <1>10. F \in SUBSET prefill /\ prefill \ F = P
    <2>1. F \in SUBSET prefill
      OBVIOUS
    <2>2. ASSUME NEW i \in prefill \ F PROVE i \in P
      <3>1. i \in D /\ ~(i > L) /\ queue[i].computed < queue[i].len
        BY <1>7, <1>8, <2>2
      <3>2. i \in 1 .. L
        BY <1>1, <3>1
      <3> QED BY <1>5, <1>6, <3>1, <3>2
    <2>3. ASSUME NEW i \in P PROVE i \in prefill \ F
      <3>1. i \in 1 .. L /\ base[i].computed < base[i].len
        BY <1>6, <1>9, <2>3
      <3>2. i \in prefill
        BY <1>5, <1>7, <3>1
      <3> QED BY <1>1, <1>8, <3>1, <3>2
    <2> HIDE DEF prefill, F, P
    <2> QED BY <2>1, <2>2, <2>3
  <1>11. f.t_in = SumFunctionOnSet(g, prefill) /\ f.t_ft = SumFunctionOnSet(g, F)
    BY DEF FeaturesFromOutput, Features
  <1>12. f.b_d = Cardinality({i \in D \ prefill : granted[i].n > 0})
    BY <1>3 DEF FeaturesFromOutput, Features
  <1>13. {i \in D \ prefill : granted[i].n > 0} = (1 .. L) \ P
    <2> DEFINE B == {i \in D \ prefill : granted[i].n > 0}
    <2>1. ASSUME NEW i \in B PROVE i \in (1 .. L) \ P
      <3>1. i \in D /\ ~(queue[i].computed < queue[i].len)
        BY <1>7, <2>1
      <3>2. i \in 1 .. L
        BY <1>1, <3>1
      <3> QED BY <1>5, <1>6, <3>1, <3>2
    <2>2. ASSUME NEW i \in (1 .. L) \ P PROVE i \in B
      <3>1. i \in D /\ ~(queue[i].computed < queue[i].len) /\ Need(queue[i]) > 0
        BY <1>5, <1>6, <2>2
      <3> QED BY <1>3, <1>7, <3>1
    <2> HIDE DEF B, P
    <2> QED BY <2>1, <2>2 DEF B
  <1>14. /\ t \in Nat /\ d \in Nat
         /\ t = SumFunctionOnSet(n, P)
         /\ d = Cardinality((1 .. L) \ P)
    <2>1. \A i \in DOMAIN base : Need(base[i]) \in Nat \ {0}
      <3> TAKE i \in DOMAIN base
      <3>1. Need(base[i]) \in Nat /\ Need(base[i]) > 0
        BY <1>1, <1>5 DEF ReqOk
      <3> QED BY <3>1
    <2>2. IsSeq(base)
      BY DEF Rests
    <2>3. /\ t \in Nat /\ d \in Nat
          /\ t + d < options.batch =>
                /\ Whole(base)
                /\ SumFunctionOnSet(Needs(base), 1 .. Len(base)) = t + d
                /\ t = SumFunctionOnSet(Needs(base), Prefill(base))
                /\ d = Cardinality(DOMAIN base \ Prefill(base))
      BY <2>1, <2>2, BudgetLeft
    <2> QED BY <1>1, <2>3
  <1>15. IsFiniteSet(prefill) /\ IsFiniteSet(P)
    <2>1. IsFiniteSet(D) /\ prefill \in SUBSET D
      <3>1. IsFiniteSet(D)
        BY <1>1, FS_Interval
      <3> QED BY <1>7, <3>1
    <2>2. P \in SUBSET prefill
      BY <1>10
    <2> HIDE DEF prefill, P, D
    <2> QED BY <2>1, <2>2, FS_Subset
  <1>16. \A i \in P : g[i] = n[i]
    <2> TAKE i \in P
    <2>1. i \in 1 .. L
      BY <1>9
    <2> HIDE DEF g, P
    <2> QED BY <1>1, <1>4, <1>5, <2>1 DEF Needs
  <1>17. \A i \in prefill : g[i] \in Nat
    BY <1>4, <1>7
  <1> HIDE DEF g, prefill, F, P, n, f, t, d
  <1>18. SumFunctionOnSet(g, P) = SumFunctionOnSet(n, P)
    BY <1>15, <1>16, SumSame
  <1>19. /\ SumFunctionOnSet(g, prefill)
              = SumFunctionOnSet(g, F) + SumFunctionOnSet(g, prefill \ F)
         /\ SumFunctionOnSet(g, F) \in Nat
    <2>1. IsFiniteSet(prefill) /\ \A i \in prefill : g[i] \in Nat
      BY <1>15, <1>17
    <2>2. \A U \in SUBSET prefill :
            /\ SumFunctionOnSet(g, prefill)
                  = SumFunctionOnSet(g, U) + SumFunctionOnSet(g, prefill \ U)
            /\ SumFunctionOnSet(g, prefill) \in Nat
            /\ SumFunctionOnSet(g, U) \in Nat
            /\ SumFunctionOnSet(g, prefill \ U) \in Nat
      BY <2>1, SumParts
    <2> QED BY <1>10, <2>2
  <1>20. f.t_in - f.t_ft = t
    <2>1. SumFunctionOnSet(g, prefill \ F) = t
      BY <1>10, <1>14, <1>18
    <2>2. f.t_in = f.t_ft + SumFunctionOnSet(g, prefill \ F) /\ f.t_ft \in Nat
      BY <1>11, <1>19
    <2>3. f.t_in = f.t_ft + t
      BY <2>1, <2>2
    <2> QED BY <1>14, <2>2, <2>3
  <1>21. f.b_d = d
    BY <1>12, <1>13, <1>14
  <1> QED BY <1>20, <1>21 DEF f, t, d, AsJudged

\* A request that is given some of what it needs, and one that got a token.
LEMMA Advanced ==
    ASSUME NEW q, ReqOk(q), NEW n \in Nat, n <= Need(q)
    PROVE  LET r == [q EXCEPT !.computed = @ + n]
           IN  /\ ReqOk(r) /\ r.id = q.id /\ r.ft = q.ft
               /\ Need(r) = Need(q) - n
  <1> DEFINE r == [q EXCEPT !.computed = @ + n]
  <1>1. /\ DOMAIN q = ReqFields /\ q = [x \in ReqFields |-> q[x]]
        /\ q.len \in Nat \ {0} /\ q.computed \in Nat /\ q.got \in Nat
        /\ q.ft \in BOOLEAN
        /\ Need(q) \in Nat /\ Need(q) = q.len + q.got - q.computed
        /\ q.computed < q.len => q.got = 0
        /\ q.computed >= q.len => Need(q) <= 1
    BY DEF ReqOk, Need
  <1>2. /\ DOMAIN r = ReqFields /\ r = [x \in ReqFields |-> r[x]]
        /\ r.len = q.len /\ r.computed = q.computed + n /\ r.got = q.got
        /\ r.ft = q.ft /\ r.id = q.id
    BY <1>1 DEF ReqFields
  <1> HIDE DEF r
  <1>3. Need(r) = Need(q) - n
    BY <1>1, <1>2 DEF Need
  <1> QED BY <1>1, <1>2, <1>3 DEF ReqOk, r

\* A request that has run: what is still to be computed, or the next token.
LEMMA Sampled ==
    ASSUME NEW q, ReqOk(q), q.id # "prof", ~q.ft
    PROVE  /\ Need(q) # 0 => Resting(q)
           /\ Need(q) = 0 => Resting([q EXCEPT !.got = @ + 1])
  <1> DEFINE r == [q EXCEPT !.got = @ + 1]
  <1>1. /\ DOMAIN q = ReqFields /\ q = [x \in ReqFields |-> q[x]]
        /\ q.len \in Nat \ {0} /\ q.computed \in Nat /\ q.got \in Nat
        /\ q.ft \in BOOLEAN
        /\ Need(q) \in Nat /\ Need(q) = q.len + q.got - q.computed
    BY DEF ReqOk, Need
  <1>2. /\ DOMAIN r = ReqFields /\ r = [x \in ReqFields |-> r[x]]
        /\ r.len = q.len /\ r.computed = q.computed /\ r.got = q.got + 1
        /\ r.ft = q.ft /\ r.id = q.id
    BY <1>1 DEF ReqFields
  <1> HIDE DEF r
  <1>3. Need(r) = Need(q) + 1
    BY <1>1, <1>2 DEF Need
  <1>4. Need(q) # 0 => Resting(q)
    BY <1>1 DEF Resting
  <1>5. Need(q) = 0 => Resting(r)
    BY <1>1, <1>2, <1>3 DEF Resting, ReqOk
  <1> QED BY <1>4, <1>5 DEF r

\* The requests of the launch pass.
ProfReq(q) == DOMAIN q = ReqFields /\ q.id = "prof"
ProfQueue(t) == IsSeq(t) /\ \A i \in DOMAIN t : ProfReq(t[i])

\* Requests of the profiler behind others of its own.
LEMMA ProfBehind ==
    ASSUME NEW s, ProfQueue(s), NEW t, ProfQueue(t)
    PROVE  ProfQueue(s \o t)
  <1> DEFINE c == s \o t
  <1>1. /\ IsSeq(s) /\ IsSeq(t)
        /\ \A i \in 1 .. Len(s) : ProfReq(s[i])
        /\ \A i \in 1 .. Len(t) : ProfReq(t[i])
        /\ Len(s) \in Nat /\ Len(t) \in Nat
    BY IsSeqFacts DEF ProfQueue
  <1>2. /\ IsSeq(c) /\ Len(c) = Len(s) + Len(t)
        /\ \A j \in 1 .. Len(s) : c[j] = s[j]
        /\ \A j \in 1 .. Len(t) : c[Len(s) + j] = t[j]
    BY <1>1, ConcatFacts
  <1>3. DOMAIN c = 1 .. Len(c)
    BY <1>2, IsSeqFacts
  <1> HIDE DEF c
  <1>4. ASSUME NEW i \in DOMAIN c PROVE ProfReq(c[i])
    <2>1. i \in 1 .. Len(s) + Len(t)
      BY <1>2, <1>3
    <2>2. CASE i <= Len(s)
      <3>1. i \in 1 .. Len(s)
        BY <1>1, <2>1, <2>2
      <3> QED BY <1>1, <1>2, <3>1
    <2>3. CASE i > Len(s)
      <3>1. i - Len(s) \in 1 .. Len(t) /\ i = Len(s) + (i - Len(s))
        BY <1>1, <2>1, <2>3
      <3>2. c[i] = t[i - Len(s)]
        BY <1>2, <3>1
      <3> QED BY <1>1, <3>1, <3>2
    <2> QED BY <1>1, <2>1, <2>2, <2>3
  <1> QED BY <1>2, <1>4 DEF ProfQueue, c

\* What the profiler sends.
LEMMA PromptsAreProf ==
    ASSUME NEW lens, IsSeq(lens), NEW max, NEW ft
    PROVE  ProfQueue(Prompts(lens, max, ft))
  <1> DEFINE p == Prompts(lens, max, ft)
             n == Len(lens)
  <1>1. n \in Nat /\ DOMAIN lens = 1 .. n
    BY IsSeqFacts
  <1>2. /\ DOMAIN p = 1 .. n /\ p = [i \in 1 .. n |-> p[i]]
        /\ \A i \in 1 .. n : p[i] = Req("prof", lens[i], max, ft)
    BY <1>1 DEF Prompts
  <1> HIDE DEF p, n
  <1>3. IsSeq(p)
    BY <1>1, <1>2, FunSeq
  <1>4. \A i \in 1 .. n : ProfReq(p[i])
    BY <1>2 DEF ProfReq, Req, ReqFields
  <1> QED BY <1>2, <1>3, <1>4 DEF ProfQueue, p

\* A step of the pass moves its own requests only, and no sample of the corpus.
LEMMA PassPut ==
    ASSUME NEW queue, ProfQueue(queue), NEW taken, NEW judged, NEW bwd,
           Put(queue, taken, judged, bwd)
    PROVE  /\ ProfQueue(running') /\ ProfQueue(waiting') /\ pool' = pool
           /\ step' # NoStep => step'.samples = {}
  <1>1. IsSeq(queue) /\ \A j \in DOMAIN queue : ProfReq(queue[j])
    BY DEF ProfQueue
  <1>2. SamplesOf(queue, taken) = {}
    BY <1>1, StepAssumption DEF SamplesOf, ProfReq
  <1>3. /\ IsSeq(running') /\ IsSeq(waiting')
        /\ \A k \in DOMAIN running' : \E j \in DOMAIN queue :
              running'[k] = [queue[j] EXCEPT !.computed = @ + Given(queue, taken, j)]
        /\ \A k \in DOMAIN waiting' : \E j \in DOMAIN queue : waiting'[k] = queue[j]
        /\ pool' = pool \ SamplesOf(queue, taken)
        /\ step' # NoStep => step'.samples = SamplesOf(queue, taken)
    <2>1. Outcome(queue, taken, judged, bwd)
      BY <1>1, PutFacts
    <2> QED BY <2>1 DEF Outcome
  <1>4. ASSUME NEW k \in DOMAIN running' PROVE ProfReq(running'[k])
    <2>1. PICK j \in DOMAIN queue :
             running'[k] = [queue[j] EXCEPT !.computed = @ + Given(queue, taken, j)]
      BY <1>3, <1>4
    <2>2. DOMAIN queue[j] = ReqFields /\ queue[j].id = "prof"
      BY <1>1 DEF ProfReq
    <2> QED BY <2>1, <2>2 DEF ProfReq, ReqFields
  <1>5. \A k \in DOMAIN waiting' : ProfReq(waiting'[k])
    BY <1>1, <1>3
  <1> QED BY <1>2, <1>3, <1>4, <1>5 DEF ProfQueue
-----------------------------------------------------------------------------
(***************************************************************************)
(* What the launch pass leaves behind, and what a step carries.            *)
(***************************************************************************)
Carried == IF step = NoStep THEN {} ELSE step.samples
RowsOfStep == IF step = NoStep THEN 0 ELSE step.feats.t_ft

\* Until it serves, a server has no sample in the buffer and no work for the
\* child; within the pass all it has left behind is of the shape that runs.
PassInv ==
    /\ options \in Options /\ stage \in {"setup", "profile", "serving"}
    /\ stage # "serving" =>
          /\ setup.steps => \A r \in Ranks : cycles[r] = 0
          /\ pool = Samples /\ held = {} /\ Carried = {}
          /\ wave = 1 /\ step = NoStep => running = <<>> /\ waiting = <<>> /\ fill = 0
    /\ stage = "setup" => shape = 1 /\ wave = 1 /\ step = NoStep
    /\ stage = "profile" =>
          /\ setup.steps
          /\ shape \in Nat \ {0} /\ wave \in Nat \ {0}
          /\ ProfQueue(running) /\ ProfQueue(waiting)
          /\ step # NoStep => wave # 1
          /\ ~ShapeLeft => wave = 1 /\ step = NoStep

\* What admission reasoned on is what the step is.
Judged ==
    /\ ~step.cut
    /\ \A i \in DOMAIN step.judged :
           \/ step.refused \/ step.last
           \/ /\ step.feats.t_in - step.feats.t_ft = step.judged[i].t_in
              /\ step.feats.b_d = step.judged[i].b_d

\* A server that serves has its samples in one place each, a row in the buffer
\* for every token of those it holds, and no request but its clients'.
ServeInv ==
    stage = "serving" =>
        /\ pool \in SUBSET Samples /\ held \in SUBSET Samples /\ Carried \in SUBSET Samples
        /\ held \cap pool = {} /\ Carried \cap (held \cup pool) = {}
        /\ fill = SumLens(held) /\ RowsOfStep = SumLens(Carried)
        /\ IsSeq(running) /\ IsSeq(waiting)
        /\ \A i \in DOMAIN running : ReqOk(running[i]) /\ running[i].id # "prof"
        /\ step = NoStep => \A i \in DOMAIN running : Resting(running[i])
        /\ \A i \in DOMAIN waiting : Untouched(waiting[i])
        /\ step # NoStep => Judged

TraceInv == PassInv /\ ServeInv

\* Nothing of it moves.
LEMMA TraceUnmoved ==
    ASSUME TraceInv,
           UNCHANGED <<setup, cycles, options, stage, shape, wave, running, waiting, pool,
                       held, fill, step>>
    PROVE  TraceInv'
  <1>1. PassInv'
    BY DEF TraceInv, PassInv, Carried, ProfQueue, IsSeq, ProfReq, ReqFields, ShapeLeft,
           Ranks, NoStep
  <1>2. ServeInv'
    BY DEF TraceInv, ServeInv, Carried, RowsOfStep, IsSeq, ReqOk, Resting, Untouched,
           Need, ReqFields, Judged, NoStep, SumLens
  <1> QED BY <1>1, <1>2 DEF TraceInv

\* A start-up asks for no backward.
LEMMA LaunchAsksNothing ==
    ASSUME LaunchNext, setup.steps
    PROVE  UNCHANGED <<setup, cycles>>
  <1>1. ASSUME NEW r \in Ranks, WorkerSteps(r)
        PROVE  UNCHANGED <<setup, cycles>>
    BY <1>1 DEF WorkerSteps, StartWorker, ShareWeights, ShareActivations, ShareLora,
                TakeAnswer, PipeCloses, TimesOut, WorkerOrphaned, Fails, cycle_vars
  <1>2. ASSUME NEW r \in Ranks, ChildSteps(r)
        PROVE  UNCHANGED <<setup, cycles>>
    BY <1>2 DEF ChildSteps, Boot, HandleCommand, Build, HandleWork, Finish, LoopEnds,
                Killed, cycle_vars
  <1>3. ASSUME NEW r \in Ranks, ChildDies(r) \/ HashActivations(r) \/ PollBackward(r)
        PROVE  UNCHANGED <<setup, cycles>>
    BY <1>3 DEF ChildDies, HashActivations, PollBackward, cycle_vars
  <1>4. CASE Reduce \/ EngineSteps \/ TriggerBackward \/ EngineCrashes
    BY <1>4 DEF Reduce, EngineSteps, EngineGivesUp, Serve, TriggerBackward, EngineCrashes,
                cycle_vars
  <1> QED BY <1>1, <1>2, <1>3, <1>4 DEF LaunchNext

\* The processes of a start-up touch neither the scheduler nor the buffer.
LEMMA LaunchKeepsTrace ==
    ASSUME TraceInv, LaunchNext, UNCHANGED step_vars
    PROVE  TraceInv'
  <1>1. UNCHANGED <<options, stage, shape, wave, running, waiting, pool, held, fill, step>>
    BY DEF step_vars, profile_vars, queue_vars, buffer_vars
  <1>2. CASE setup.steps
    BY <1>1, <1>2, LaunchAsksNothing, TraceUnmoved
  <1>3. CASE ~setup.steps
    <2>1. setup' = setup
      BY DEF LaunchNext, WorkerSteps, StartWorker, ShareWeights, ShareActivations, ShareLora,
             TakeAnswer, PipeCloses, TimesOut, WorkerOrphaned, Fails, ChildSteps, Boot,
             HandleCommand, Build, HandleWork, Finish, LoopEnds, Killed, ChildDies,
             HashActivations, PollBackward, Reduce, EngineSteps, EngineGivesUp, Serve,
             TriggerBackward, EngineCrashes
    <2>2. PassInv'
      BY <1>1, <1>3, <2>1 DEF TraceInv, PassInv, Carried, ProfQueue, IsSeq, ProfReq,
         ReqFields, ShapeLeft, NoStep
    <2>3. ServeInv'
      BY <1>1 DEF TraceInv, ServeInv, Carried, RowsOfStep, IsSeq, ReqOk, Resting, Untouched,
             Need, ReqFields, Judged, NoStep, SumLens
    <2> QED BY <2>2, <2>3 DEF TraceInv
  <1> QED BY <1>2, <1>3

\* The launch pass: what a shape has left goes with it.
LEMMA PassKeepsTrace ==
    ASSUME TraceInv, BeforeBusyLoop \/ ProfilingStep \/ EndShape \/ EndProfile
    PROVE  TraceInv'
  <1>1. /\ PassInv /\ ServeInv
        /\ UNCHANGED <<setup, cycles, options>>
    BY DEF TraceInv, BeforeBusyLoop, ProfilingStep, EndShape, EndProfile, launch_vars,
           cycle_vars
  <1>2. Ranks' = Ranks
    BY <1>1 DEF Ranks
  <1>3. CASE BeforeBusyLoop
    <2>1. /\ stage = "setup" /\ setup.steps
          /\ stage' \in {"serving", "profile"}
          /\ UNCHANGED <<shape, wave, running, waiting, pool, held, fill, step>>
      BY <1>3 DEF BeforeBusyLoop, StartProfile, queue_vars, buffer_vars
    <2>2. /\ running = <<>> /\ waiting = <<>> /\ fill = 0 /\ held = {} /\ pool = Samples
          /\ shape = 1 /\ wave = 1 /\ step = NoStep
      BY <1>1, <2>1 DEF PassInv
    <2>3. Carried' = {} /\ RowsOfStep' = 0
      BY <2>1, <2>2 DEF Carried, RowsOfStep, NoStep
    <2>4. PassInv'
      <3>1. ProfQueue(<<>>)
        BY OneFacts DEF ProfQueue
      <3>2. stage' = "profile" => setup'.steps
        BY <1>1, <2>1
      <3>3. setup'.steps => \A r \in Ranks' : cycles'[r] = 0
        BY <1>1, <1>2, <2>1 DEF PassInv
      <3> QED BY <1>1, <1>3, <2>1, <2>2, <2>3, <3>1, <3>2, <3>3 DEF PassInv, NoStep
    <2>5. ServeInv'
      <3>1. SumLens({}) = 0 /\ {} \in SUBSET Samples
        BY LensFacts
      <3>2. SumLens(held') = 0 /\ SumLens(Carried') = 0
        BY <2>1, <2>2, <2>3, <3>1
      <3> QED BY <2>1, <2>2, <2>3, <3>2, OneFacts DEF ServeInv, NoStep
    <2> QED BY <2>4, <2>5 DEF TraceInv
  <1>4. CASE ProfilingStep
    <2> DEFINE s == Plan(options)[shape]
               w == WaveOf(s, wave)
               one == Prompts(w.inf, w.max, FALSE)
               two == Prompts(w.ft, 1, TRUE)
               queue == running \o waiting \o one \o two
    <2>1. /\ stage = "profile" /\ stage' = "profile" /\ step = NoStep /\ ShapeLeft
          /\ Put(queue, Len(queue), <<>>, FALSE)
          /\ wave' = wave + 1
          /\ UNCHANGED <<shape, held, fill>>
      BY <1>4 DEF ProfilingStep, UpAndIdle
    <2>2. /\ setup.steps /\ shape \in Nat \ {0} /\ wave \in Nat \ {0}
          /\ ProfQueue(running) /\ ProfQueue(waiting)
          /\ \A r \in Ranks : cycles[r] = 0
          /\ pool = Samples /\ held = {}
      BY <1>1, <2>1 DEF PassInv
    <2>3. ShapeOk(s)
      <3>1. Shapes(Plan(options))
        BY <1>1, StepAssumption, PlanOk DEF PassInv
      <3>2. shape \in DOMAIN Plan(options)
        BY <2>1, <2>2, <3>1, IsSeqFacts DEF Shapes, ShapeLeft
      <3> QED BY <3>1, <3>2 DEF Shapes
    <2>4. ProfQueue(one) /\ ProfQueue(two)
      <3> HIDE DEF s
      <3>1. IsSeq(w.inf) /\ IsSeq(w.ft)
        BY <2>3, WaveIsSeq
      <3> HIDE DEF w
      <3> QED BY <3>1, PromptsAreProf
    <2> HIDE DEF one, two
    <2>5. ProfQueue(queue)
      <3>1. ProfQueue(running \o waiting)
        BY <2>2, ProfBehind
      <3>2. ProfQueue(running \o waiting \o one)
        BY <2>4, <3>1, ProfBehind
      <3> QED BY <2>4, <3>2, ProfBehind
    <2> HIDE DEF queue
    <2>6. /\ ProfQueue(running') /\ ProfQueue(waiting') /\ pool' = pool
          /\ step' # NoStep => step'.samples = {}
      BY <2>1, <2>5, PassPut
    <2>7. Carried' = {} /\ wave' \in Nat \ {0} /\ wave' # 1
      BY <2>1, <2>2, <2>6 DEF Carried, NoStep
    <2>8. ShapeLeft'
      BY <1>1, <2>1 DEF ShapeLeft
    <2>9. PassInv'
      <3>1. \A r \in Ranks' : cycles'[r] = 0
        BY <1>1, <1>2, <2>2
      <3> QED BY <1>1, <2>1, <2>2, <2>6, <2>7, <2>8, <3>1 DEF PassInv
    <2>10. ServeInv'
      BY <2>1 DEF ServeInv
    <2> QED BY <2>9, <2>10 DEF TraceInv
  <1>5. CASE EndShape
    <2>1. /\ stage = "profile" /\ stage' = "profile" /\ step = NoStep /\ step' = step
          /\ running' = <<>> /\ waiting' = <<>> /\ held' = {} /\ fill' = 0
          /\ shape' = shape + 1 /\ wave' = 1 /\ pool' = pool
      BY <1>5 DEF EndShape, UpAndIdle, ResetCoord
    <2>2. /\ setup.steps /\ shape \in Nat \ {0} /\ pool = Samples
          /\ \A r \in Ranks : cycles[r] = 0
      BY <1>1, <2>1 DEF PassInv
    <2>3. ProfQueue(<<>>) /\ Carried' = {}
      BY <2>1, OneFacts DEF ProfQueue, Carried, NoStep
    <2>4. PassInv'
      <3>1. \A r \in Ranks' : cycles'[r] = 0
        BY <1>1, <1>2, <2>2
      <3>2. shape' \in Nat \ {0} /\ wave' \in Nat \ {0}
        BY <2>1, <2>2
      <3> QED BY <1>1, <2>1, <2>2, <2>3, <3>1, <3>2 DEF PassInv, NoStep
    <2>5. ServeInv'
      BY <2>1 DEF ServeInv
    <2> QED BY <2>4, <2>5 DEF TraceInv
  <1>6. CASE EndProfile
    <2>1. /\ stage = "profile" /\ stage' = "serving" /\ ~ShapeLeft
          /\ UNCHANGED <<running, waiting, pool, held, fill, step>>
      BY <1>6 DEF EndProfile, queue_vars, buffer_vars
    <2>2. /\ running = <<>> /\ waiting = <<>> /\ fill = 0 /\ held = {} /\ pool = Samples
          /\ step = NoStep
      BY <1>1, <2>1 DEF PassInv
    <2>3. Carried' = {} /\ RowsOfStep' = 0
      BY <2>1, <2>2 DEF Carried, RowsOfStep, NoStep
    <2>4. PassInv'
      BY <1>1, <2>1 DEF PassInv
    <2>5. ServeInv'
      <3>1. SumLens({}) = 0 /\ {} \in SUBSET Samples
        BY LensFacts
      <3>2. SumLens(held') = 0 /\ SumLens(Carried') = 0
        BY <2>1, <2>2, <2>3, <3>1
      <3> QED BY <2>1, <2>2, <2>3, <3>2, OneFacts DEF ServeInv, NoStep
    <2> QED BY <2>4, <2>5 DEF TraceInv
  <1> QED BY <1>3, <1>4, <1>5, <1>6

\* A step that runs: its samples go to the buffer with their rows.
LEMMA ExecuteKeepsTrace ==
    ASSUME TraceInv, Execute
    PROVE  TraceInv'
  <1> DEFINE sampled == [i \in DOMAIN running |->
                           IF Need(running[i]) = 0 THEN [running[i] EXCEPT !.got = @ + 1]
                                                   ELSE running[i]]
             stay == {i \in DOMAIN sampled : ~sampled[i].ft /\ sampled[i].got < sampled[i].max}
  <1>1. /\ PassInv /\ ServeInv /\ step # NoStep /\ step' = NoStep
        /\ held' = held \cup step.samples /\ fill' = fill + step.feats.t_ft
        /\ running' = Picked(sampled, stay)
        /\ UNCHANGED <<setup, options, stage, shape, wave, waiting, pool>>
    BY DEF TraceInv, Execute, profile_vars
  <1>2. stage # "serving" => cycles' = cycles
    BY DEF Execute, Triggers
  <1>3. Carried' = {} /\ RowsOfStep' = 0 /\ Carried = step.samples
        /\ RowsOfStep = step.feats.t_ft
    BY <1>1 DEF Carried, RowsOfStep, NoStep
  <1>4. ASSUME IsSeq(running)
        PROVE  /\ IsSeq(running')
               /\ \A k \in DOMAIN running' : \E j \in DOMAIN running :
                     ~sampled[j].ft /\ running'[k] = sampled[j]
    <2>1. Len(running) \in Nat /\ DOMAIN running = 1 .. Len(running)
      BY <1>4, IsSeqFacts
    <2>2. DOMAIN sampled = 1 .. Len(running) /\ sampled = [i \in 1 .. Len(running) |-> sampled[i]]
      BY <2>1
    <2> HIDE DEF sampled
    <2>3. IsSeq(sampled)
      BY <2>1, <2>2, FunSeq
    <2>4. \A i \in stay : ~sampled[i].ft
      OBVIOUS
    <2> HIDE DEF stay
    <2>5. /\ IsSeq(running')
          /\ \A k \in DOMAIN running' : \E j \in DOMAIN sampled :
                j \in stay /\ running'[k] = sampled[j]
      BY <1>1, <2>3, PickedFacts
    <2> QED BY <2>1, <2>2, <2>4, <2>5
  <1>5. CASE stage # "serving"
    <2>1. stage = "profile"
      BY <1>1, <1>5 DEF PassInv
    <2>2. /\ setup.steps /\ shape \in Nat \ {0} /\ wave \in Nat \ {0} /\ wave # 1
          /\ ProfQueue(running) /\ ProfQueue(waiting) /\ ShapeLeft
          /\ \A r \in Ranks : cycles[r] = 0
          /\ pool = Samples /\ held = {} /\ Carried = {}
      BY <1>1, <2>1 DEF PassInv
    <2>3. held' = {}
      BY <1>1, <1>3, <2>2
    <2>4. ProfQueue(running')
      <3>1. \A j \in DOMAIN running : ProfReq(sampled[j])
        <4> TAKE j \in DOMAIN running
        <4>1. DOMAIN running[j] = ReqFields /\ running[j].id = "prof"
          BY <2>2 DEF ProfQueue, ProfReq
        <4> QED BY <4>1 DEF ProfReq, ReqFields
      <3>2. IsSeq(running)
        BY <2>2 DEF ProfQueue
      <3> HIDE DEF sampled
      <3> QED BY <1>4, <3>1, <3>2 DEF ProfQueue
    <2>5. ShapeLeft' /\ ProfQueue(waiting')
      BY <1>1, <2>2 DEF ShapeLeft
    <2>6. \A r \in Ranks' : cycles'[r] = 0
      BY <1>1, <1>2, <1>5, <2>2 DEF Ranks
    <2>7. PassInv'
      BY <1>1, <1>3, <2>1, <2>2, <2>3, <2>4, <2>5, <2>6 DEF PassInv
    <2>8. ServeInv'
      BY <1>1, <1>5 DEF ServeInv
    <2> QED BY <2>7, <2>8 DEF TraceInv
  <1>6. CASE stage = "serving"
    <2>1. PassInv'
      BY <1>1, <1>6 DEF PassInv
    <2>2. /\ pool \in SUBSET Samples /\ held \in SUBSET Samples /\ Carried \in SUBSET Samples
          /\ held \cap pool = {} /\ Carried \cap (held \cup pool) = {}
          /\ fill = SumLens(held) /\ RowsOfStep = SumLens(Carried)
          /\ IsSeq(running) /\ IsSeq(waiting)
          /\ \A i \in DOMAIN running : ReqOk(running[i]) /\ running[i].id # "prof"
          /\ \A i \in DOMAIN waiting : Untouched(waiting[i])
      BY <1>1, <1>6 DEF ServeInv
    <2>3. /\ held' \in SUBSET Samples /\ held' \cap pool = {}
          /\ fill' = SumLens(held')
      <3> DEFINE all == held \cup Carried
      <3>1. all \in SUBSET Samples /\ held \in SUBSET all /\ all \ held = Carried
        BY <2>2
      <3> HIDE DEF all
      <3>2. SumLens(all) = SumLens(held) + SumLens(all \ held)
        BY <3>1, LensFacts
      <3>3. held' = all /\ fill' = SumLens(held) + SumLens(Carried)
        BY <1>1, <1>3, <2>2 DEF all
      <3> QED BY <2>2, <3>1, <3>2, <3>3 DEF all
    <2>4. \A k \in DOMAIN running' : Resting(running'[k])
      <3>1. ASSUME NEW j \in DOMAIN running, ~sampled[j].ft PROVE Resting(sampled[j])
        <4>1. ReqOk(running[j]) /\ running[j].id # "prof"
          BY <2>2
        <4>2. running[j].ft = sampled[j].ft
          BY <4>1 DEF ReqOk, ReqFields
        <4>3. Need(running[j]) # 0 => sampled[j] = running[j]
          OBVIOUS
        <4>4. Need(running[j]) = 0 => sampled[j] = [running[j] EXCEPT !.got = @ + 1]
          OBVIOUS
        <4> HIDE DEF sampled
        <4>5. ~running[j].ft
          BY <3>1, <4>2
        <4> QED BY <4>1, <4>3, <4>4, <4>5, Sampled
      <3> HIDE DEF sampled
      <3> QED BY <1>4, <2>2, <3>1
    <2>5. \A k \in DOMAIN running' : ReqOk(running'[k]) /\ running'[k].id # "prof"
      BY <2>4 DEF Resting
    <2>6. SumLens(Carried') = 0 /\ Carried' \in SUBSET Samples
      BY <1>3, LensFacts
    <2>7. ServeInv'
      <3>1. IsSeq(running') /\ IsSeq(waiting')
        BY <1>1, <1>4, <2>2
      <3>2. \A i \in DOMAIN waiting' : Untouched(waiting'[i])
        BY <1>1, <2>2
      <3> QED BY <1>1, <1>3, <2>2, <2>3, <2>4, <2>5, <2>6, <3>1, <3>2 DEF ServeInv
    <2> QED BY <2>1, <2>7 DEF TraceInv
  <1> QED BY <1>5, <1>6

\* A step is scheduled: admission takes samples that are free, the base
\* scheduler gives each all of it or nothing.
LEMMA ScheduleKeepsTrace ==
    ASSUME TraceInv, Schedule
    PROVE  TraceInv'
  <1> DEFINE base == running \o waiting
             f == CurrentStepFeatures
  <1>1. /\ PassInv /\ stage = "serving" /\ stage' = "serving" /\ step = NoStep
        /\ options' = options /\ options \in Options
    BY DEF TraceInv, PassInv, Schedule, UpAndIdle, profile_vars
  <1>2. /\ pool \in SUBSET Samples /\ held \in SUBSET Samples
        /\ held \cap pool = {} /\ fill = SumLens(held)
        /\ IsSeq(running) /\ IsSeq(waiting)
        /\ \A i \in DOMAIN running : Resting(running[i])
        /\ \A i \in DOMAIN waiting : Untouched(waiting[i])
    BY <1>1 DEF TraceInv, ServeInv
  <1>3. options.batch \in Nat
    BY <1>1, StepAssumption DEF Option
  <1>4. /\ held' \in SUBSET held /\ fill' = SumLens(held') /\ fill' \in Nat
    <2>1. \/ held' = {} /\ fill' = 0
          \/ held' = held /\ fill' = fill
      BY DEF Schedule, Poll
    <2>2. SumLens({}) = 0 /\ SumLens(held) \in Nat
      BY <1>2, LensFacts
    <2> QED BY <1>2, <2>1, <2>2
  <1>5. Rests(base) /\ \A i \in DOMAIN base : Need(base[i]) \in Nat \ {0}
    <2>1. /\ Len(running) \in Nat /\ DOMAIN running = 1 .. Len(running)
          /\ Len(waiting) \in Nat /\ DOMAIN waiting = 1 .. Len(waiting)
      BY <1>2, IsSeqFacts
    <2>2. /\ IsSeq(base) /\ Len(base) = Len(running) + Len(waiting)
          /\ \A j \in 1 .. Len(running) : base[j] = running[j]
          /\ \A j \in 1 .. Len(waiting) : base[Len(running) + j] = waiting[j]
      BY <1>2, ConcatFacts
    <2>3. DOMAIN base = 1 .. Len(base)
      BY <2>2, IsSeqFacts
    <2> HIDE DEF base
    <2>4. ASSUME NEW i \in DOMAIN base PROVE Resting(base[i])
      <3>1. CASE i <= Len(running)
        <4>1. i \in 1 .. Len(running)
          BY <2>1, <2>2, <2>3, <3>1
        <4> QED BY <1>2, <2>1, <2>2, <4>1
      <3>2. CASE i > Len(running)
        <4>1. i - Len(running) \in 1 .. Len(waiting) /\ i = Len(running) + (i - Len(running))
          BY <2>1, <2>2, <2>3, <3>2
        <4>2. base[i] = waiting[i - Len(running)]
          BY <2>2, <4>1
        <4> QED BY <1>2, <2>1, <4>1, <4>2 DEF Untouched
      <3> QED BY <2>1, <2>2, <2>3, <3>1, <3>2
    <2>5. \A i \in DOMAIN base : Need(base[i]) \in Nat \ {0}
      <3> TAKE i \in DOMAIN base
      <3>1. Need(base[i]) \in Nat /\ Need(base[i]) > 0
        BY <2>4 DEF Resting, ReqOk
      <3> QED BY <3>1
    <2> QED BY <2>2, <2>4, <2>5 DEF Rests
  <1>6. f.t_in \in Nat /\ f.b_d \in Nat
    <2>1. IsSeq(base)
      BY <1>5 DEF Rests
    <2> QED BY <1>3, <1>5, <2>1, BudgetLeft
  <1>7. PICK S \in Admissible(f, Pending', fill', fitted' # {}),
             taken \in Len(running)..(Len(running \o waiting) + Cardinality(pool)) :
           Put(base \o SampleReqs(S), taken, IF S = {} THEN <<>> ELSE <<f>>, Pending')
    BY DEF Schedule
  <1> DEFINE queue == base \o SampleReqs(S)
             L == Len(base)
             out == SamplesOf(queue, taken)
             judged == IF S = {} THEN <<>> ELSE <<f>>
  <1>8. /\ S \in SUBSET pool /\ S \in SUBSET Samples /\ taken \in Nat
        /\ S # {} => SumLens(S) <= options.batch - f.t_in - f.b_d
    <2>1. taken \in Nat
      <3>1. Len(running) \in Nat
        BY <1>2, IsSeqFacts
      <3> QED BY <1>7, <3>1
    <2>2. S \in Admissible(f, Pending', fill', fitted' # {})
      BY <1>7
    <2> HIDE DEF f
    <2>3. /\ S \subseteq pool
          /\ S # {} => SumLens(S) <= options.batch - f.t_in - f.b_d
      BY <1>1, <1>2, <1>4, <1>6, <2>2, AdmittedFits
    <2> QED BY <1>2, <2>1, <2>3
  <1> HIDE DEF base
  <1>9. S # {} => Whole(queue) /\ f.t_in + f.b_d < options.batch
    <2> SUFFICES ASSUME S # {} PROVE Whole(queue) /\ f.t_in + f.b_d < options.batch
      OBVIOUS
    <2>1. Whole(queue)
      BY <1>3, <1>5, <1>8, WholeWithSamples DEF base
    <2>2. PICK s \in S : TRUE
      OBVIOUS
    <2>3. /\ SumLens(S) \in Nat /\ SumLens(S \ {s}) \in Nat
          /\ SumLens(S) = SumLens({s}) + SumLens(S \ {s})
      <3>1. {s} \in SUBSET S
        BY <2>2
      <3> QED BY <1>8, <3>1, LensFacts
    <2>4. SumLens({s}) = SampleLen[s] /\ SampleLen[s] \in Nat \ {0}
      BY <1>8, <2>2, LensOfOne
    <2> HIDE DEF f
    <2>5. SumLens(S) >= 1
      BY <2>3, <2>4
    <2> QED BY <1>3, <1>6, <1>8, <2>1, <2>3, <2>5
  <1>10. /\ IsSeq(queue) /\ L \in Nat /\ DOMAIN queue = 1 .. Len(queue) /\ Len(queue) \in Nat
         /\ \A i \in 1 .. L : queue[i] = base[i] /\ i \in DOMAIN base
         /\ \A i \in DOMAIN queue : ReqOk(queue[i])
         /\ \A i \in DOMAIN queue : i > L => queue[i].ft /\ queue[i].id \in S
    <2>1. Behind(base, S)
      BY <1>5, <1>8, QueueFacts
    <2>2. DOMAIN base = 1 .. L
      BY <1>5, IsSeqFacts DEF Rests
    <2>3. IsSeq(queue)
      BY <2>1 DEF Behind
    <2>4. Len(queue) \in Nat
      BY <2>3, IsSeqFacts
    <2> QED BY <2>1, <2>2, <2>3, <2>4 DEF Behind
  <1>11. \A i \in DOMAIN queue : i > L => Share(queue, i) = Need(queue[i])
    <2>1. CASE S # {}
      BY <1>9, <2>1 DEF Whole
    <2>2. CASE S = {}
      BY <1>10, <2>2
    <2> QED BY <2>1, <2>2
  <1>12. Outcome(queue, taken, judged, Pending')
    BY <1>7, <1>10, PutFacts DEF base
  <1> DEFINE b == Pending'
  <1>13. AllOrNothing(queue, taken, S, b)
    <2>1. queue = base \o SampleReqs(S) /\ Rests(base) /\ S \in SUBSET Samples
      BY <1>5, <1>8
    <2>2. SamplesFit(base, queue) /\ taken \in Nat
      BY <1>8, <1>11 DEF SamplesFit
    <2> HIDE DEF queue, b
    <2> QED BY <1>3, <2>1, <2>2, SamplesAreWhole
  <1>14. PassInv'
    BY <1>1 DEF PassInv
  <1>15. /\ step' = NoStep => out = {}
         /\ step' # NoStep => /\ step'.samples = out
                              /\ step'.feats.t_ft = SumLens(out)
    <2>1. FeaturesFromOutput(Grant(queue, taken), b).t_ft = SumLens(out)
      BY <1>13 DEF AllOrNothing
    <2> QED BY <1>12, <2>1 DEF Outcome, SamplesOf
  <1>16. out \in SUBSET S
    BY <1>13 DEF AllOrNothing
  <1> HIDE DEF out
  <1>17. Carried' = out /\ RowsOfStep' = SumLens(out)
    <2>1. SumLens({}) = 0
      BY LensFacts
    <2> QED BY <1>15, <2>1 DEF Carried, RowsOfStep, NoStep
  <1>18. pool' = pool \ out
    BY <1>12 DEF Outcome, out
  <1>19. ASSUME NEW k \in DOMAIN running'
         PROVE  /\ ReqOk(running'[k]) /\ running'[k].id # "prof"
                /\ step' = NoStep => Resting(running'[k])
    <2>1. PICK j \in DOMAIN queue :
             /\ running'[k] = [queue[j] EXCEPT !.computed = @ + Given(queue, taken, j)]
             /\ j <= Len(running) \/ Ran(queue, taken, j)
      BY <1>12 DEF Outcome
    <2>2. Given(queue, taken, j) \in Nat /\ Given(queue, taken, j) <= Need(queue[j])
      <3>1. \A i \in DOMAIN queue : Need(queue[i]) \in Nat
        BY <1>10 DEF ReqOk
      <3>2. Share(queue, j) \in Nat /\ Share(queue, j) <= Need(queue[j])
        BY <1>3, <1>10, <2>1, <3>1, ShareFacts
      <3> QED BY <2>1, <3>1, <3>2 DEF Given
    <2>3. ReqOk(queue[j])
      BY <1>10, <2>1
    <2>4. /\ ReqOk(running'[k]) /\ running'[k].id = queue[j].id
          /\ running'[k].ft = queue[j].ft
          /\ Need(running'[k]) = Need(queue[j]) - Given(queue, taken, j)
      BY <2>1, <2>2, <2>3, Advanced
    <2>5. queue[j].id # "prof" /\ (j <= L => Resting(queue[j]))
      <3>1. CASE j <= L
        <4>1. j \in 1 .. L
          BY <1>10, <2>1, <3>1
        <4>2. Resting(queue[j])
          BY <1>5, <1>10, <4>1 DEF Rests
        <4> QED BY <4>2 DEF Resting
      <3>2. CASE ~(j <= L)
        <4>1. j > L
          BY <1>10, <2>1, <3>2
        <4>2. queue[j].id \in Samples
          BY <1>8, <1>10, <2>1, <4>1
        <4> QED BY <3>2, <4>2, StepAssumption
      <3> QED BY <3>1, <3>2
    <2>6. ASSUME step' = NoStep PROVE Resting(running'[k])
      <3>1. ~Ran(queue, taken, j)
        BY <1>12, <2>1, <2>6 DEF Outcome
      <3>2. Given(queue, taken, j) = 0
        BY <2>2, <3>1 DEF Ran
      <3>3. j <= Len(running) /\ Len(running) <= L
        <4>1. Len(running) \in Nat /\ Len(waiting) \in Nat
          BY <1>2, IsSeqFacts
        <4>2. L = Len(running) + Len(waiting)
          BY <1>2, ConcatFacts DEF base
        <4> HIDE DEF L
        <4> QED BY <2>1, <3>1, <4>1, <4>2
      <3>4. Resting(queue[j])
        <4>1. Len(running) \in Nat
          BY <1>2, IsSeqFacts
        <4> QED BY <1>10, <2>1, <2>5, <3>3, <4>1
      <3>5. Need(queue[j]) \in Nat /\ Need(queue[j]) > 0 /\ ~queue[j].ft
        BY <3>4 DEF Resting, ReqOk
      <3>6. Need(running'[k]) > 0
        BY <2>4, <3>2, <3>5
      <3>7. ReqOk(running'[k]) /\ ~running'[k].ft /\ running'[k].id # "prof"
        BY <2>4, <2>5, <3>5
      <3> QED BY <3>6, <3>7 DEF Resting
    <2> QED BY <2>4, <2>5, <2>6
  <1>20. ASSUME NEW k \in DOMAIN waiting' PROVE Untouched(waiting'[k])
    <2>1. PICK j \in DOMAIN queue :
             waiting'[k] = queue[j] /\ j > Len(running) /\ ~queue[j].ft
      BY <1>12 DEF Outcome
    <2>2. /\ Len(running) \in Nat /\ Len(waiting) \in Nat /\ DOMAIN waiting = 1 .. Len(waiting)
          /\ L = Len(running) + Len(waiting)
          /\ \A i \in 1 .. Len(waiting) : base[Len(running) + i] = waiting[i]
      BY <1>2, IsSeqFacts, ConcatFacts DEF base
    <2> HIDE DEF L
    <2>3. ~(j > L)
      BY <1>10, <2>1 DEF L
    <2>4. /\ j - Len(running) \in 1 .. Len(waiting) /\ j = Len(running) + (j - Len(running))
          /\ j \in 1 .. L
      BY <1>10, <2>1, <2>2, <2>3
    <2>5. queue[j] = waiting[j - Len(running)]
      BY <1>10, <2>2, <2>4 DEF L
    <2> QED BY <1>2, <2>1, <2>2, <2>4, <2>5
  <1>21. ASSUME step' # NoStep PROVE Judged'
    <2>1. /\ step'.feats = FeaturesFromOutput(Grant(queue, taken), Pending')
          /\ step'.judged = judged /\ step'.refused = (taken < Len(queue))
          /\ step'.cut = \E i \in DOMAIN queue :
                queue[i].ft /\ Given(queue, taken, i) \notin {0, Need(queue[i])}
          /\ step'.last = \E i \in DOMAIN running :
                Need(running[i]) = 1 /\ IsPrefill(Grant(queue, taken)[i])
      BY <1>12, <1>21 DEF Outcome
    <2>2. ~step'.cut
      BY <1>13, <2>1 DEF AllOrNothing
    <2>3. ASSUME NEW i \in DOMAIN step'.judged, ~step'.refused, ~step'.last
          PROVE  /\ step'.feats.t_in - step'.feats.t_ft = step'.judged[i].t_in
                 /\ step'.feats.b_d = step'.judged[i].b_d
      <3>1. S # {} /\ step'.judged = <<f>> /\ step'.judged[i] = f
        <4>1. step'.judged = judged
          BY <2>1
        <4>2. S # {}
          BY <2>3, <4>1
        <4> HIDE DEF f
        <4>3. step'.judged = <<f>>
          BY <4>1, <4>2
        <4>4. i = 1
          BY <2>3, <4>3
        <4> QED BY <4>2, <4>3, <4>4
      <3>2. taken >= Len(queue)
        <4>1. step'.refused = (taken < Len(queue)) /\ ~step'.refused
          BY <2>1, <2>3
        <4>2. ~(taken < Len(queue))
          BY <4>1
        <4>3. taken \in Nat /\ Len(queue) \in Nat
          BY <1>8, <1>10
        <4> HIDE DEF queue
        <4> QED BY <4>2, <4>3
      <3>3. ~LastChunk(queue, taken)
        BY <2>1, <2>3 DEF LastChunk
      <3>4. Whole(queue) /\ f.t_in + f.b_d < options.batch
        BY <1>9, <3>1
      <3>5. AsJudged(queue, taken, b)
        <4>1. base = running \o waiting /\ Rests(base) /\ IsSeq(running) /\ IsSeq(waiting)
          BY <1>2, <1>5 DEF base
        <4>2. Unstarted
          BY <1>2 DEF Unstarted
        <4>3. queue = base \o SampleReqs(S) /\ S \in SUBSET Samples /\ taken \in Nat
          BY <1>8
        <4>4. CurrentStepFeatures.t_in + CurrentStepFeatures.b_d < options.batch
          BY <3>4
        <4>5. Whole(queue)
          BY <3>4
        <4> HIDE DEF queue, b, f
        <4> QED BY <1>3, <3>2, <3>3, <4>1, <4>2, <4>3, <4>4, <4>5, StepIsJudged
      <3>6. /\ step'.feats.t_in - step'.feats.t_ft = f.t_in
            /\ step'.feats.b_d = f.b_d
        BY <2>1, <3>5 DEF AsJudged
      <3> QED BY <3>1, <3>6
    <2> QED BY <2>2, <2>3 DEF Judged
  <1>22. ServeInv'
    <2>1. IsSeq(running') /\ IsSeq(waiting')
      BY <1>12 DEF Outcome
    <2>2. /\ pool' \in SUBSET Samples /\ held' \in SUBSET Samples /\ out \in SUBSET Samples
          /\ held' \cap pool' = {} /\ out \cap (held' \cup pool') = {}
      <3> HIDE DEF queue
      <3>1. out \in SUBSET pool
        BY <1>8, <1>16
      <3> QED BY <1>2, <1>4, <1>18, <3>1
    <2> QED BY <1>4, <1>17, <1>19, <1>20, <1>21, <2>1, <2>2 DEF ServeInv
  <1> QED BY <1>14, <1>22 DEF TraceInv

\* A client's request waits behind the others.
LEMMA RequestKeepsTrace ==
    ASSUME TraceInv, NEW kind \in options.kinds, AddRequest(kind)
    PROVE  TraceInv'
  <1>1. /\ PassInv /\ ServeInv /\ stage = "serving" /\ step = NoStep
        /\ waiting' = Append(waiting, Req(kind.id, kind.len, kind.max, FALSE))
        /\ UNCHANGED <<setup, cycles, options, stage, shape, wave, running, pool, held,
                       fill, step>>
    BY DEF TraceInv, AddRequest, UpAndIdle, launch_vars, cycle_vars, profile_vars, buffer_vars
  <1>2. kind.id # "prof" /\ kind.len \in Nat \ {0}
    <2>1. options \in Options /\ options \in Option
      BY <1>1, StepAssumption DEF PassInv
    <2>2. kind \in Kind
      BY <2>1 DEF Option
    <2> QED BY <2>1, <2>2, StepAssumption DEF Kind
  <1> DEFINE no == FALSE
             req == Req(kind.id, kind.len, kind.max, no)
  <1>3. /\ ReqOk(req) /\ Need(req) = kind.len /\ req.computed = 0
        /\ req.id = kind.id /\ req.ft = no
    <2>1. no \in BOOLEAN
      OBVIOUS
    <2> HIDE DEF no
    <2> QED BY <1>2, <2>1, ReqFacts
  <1>4. waiting' = Append(waiting, req)
    BY <1>1
  <1> HIDE DEF req
  <1>5. Untouched(req)
    BY <1>2, <1>3 DEF Untouched, Resting
  <1>6. IsSeq(waiting) /\ \A i \in DOMAIN waiting : Untouched(waiting[i])
    BY <1>1 DEF ServeInv
  <1>7. IsSeq(waiting') /\ \A i \in DOMAIN waiting' : Untouched(waiting'[i])
    <2>1. Len(waiting) \in Nat /\ DOMAIN waiting = 1 .. Len(waiting)
      BY <1>6, IsSeqFacts
    <2>2. /\ IsSeq(waiting') /\ Len(waiting') = Len(waiting) + 1
          /\ waiting'[Len(waiting) + 1] = req
          /\ \A j \in 1 .. Len(waiting) : waiting'[j] = waiting[j]
      BY <1>4, <1>6, AppendFacts
    <2>3. DOMAIN waiting' = 1 .. Len(waiting')
      BY <2>2, IsSeqFacts
    <2>4. ASSUME NEW i \in DOMAIN waiting' PROVE Untouched(waiting'[i])
      <3>1. i \in 1 .. Len(waiting) \/ i = Len(waiting) + 1
        BY <2>1, <2>2, <2>3
      <3> QED BY <1>5, <1>6, <2>1, <2>2, <3>1
    <2> QED BY <2>2, <2>4
  <1>8. PassInv'
    BY <1>1 DEF PassInv
  <1>9. Carried' = Carried /\ RowsOfStep' = RowsOfStep
    BY <1>1 DEF Carried, RowsOfStep
  <1>10. ServeInv'
    BY <1>1, <1>7, <1>9 DEF ServeInv
  <1> QED BY <1>8, <1>10 DEF TraceInv

\* Nothing of the last server is left in the next one.
LEMMA FreshTrace ==
    ASSUME options' \in Options, stage' = "setup", shape' = 1, wave' = 1,
           running' = <<>>, waiting' = <<>>, pool' = Samples, held' = {}, fill' = 0,
           step' = NoStep, \A r \in Ranks' : cycles'[r] = 0
    PROVE  TraceInv'
  <1>1. Carried' = {}
    BY DEF Carried, NoStep
  <1>2. PassInv'
    BY <1>1 DEF PassInv, NoStep
  <1>3. ServeInv'
    BY DEF ServeInv
  <1> QED BY <1>2, <1>3 DEF TraceInv

\* A first server.
LEMMA TraceStarts ==
    ASSUME Init
    PROVE  TraceInv
  <1>1. /\ stage = "setup" /\ shape = 1 /\ wave = 1 /\ running = <<>> /\ waiting = <<>>
        /\ pool = Samples /\ held = {} /\ fill = 0 /\ step = NoStep
    BY DEF Init
  <1>2. options \in Options
    BY StepAssumption DEF Init
  <1>3. \A r \in Ranks : cycles[r] = 0
    BY DEF Init, InitFor, Ranks
  <1>4. Carried = {}
    BY <1>1 DEF Carried, NoStep
  <1>5. PassInv
    BY <1>1, <1>2, <1>3, <1>4 DEF PassInv, NoStep
  <1>6. ServeInv
    BY <1>1 DEF ServeInv
  <1> QED BY <1>5, <1>6 DEF TraceInv

\* Every step of the system.
LEMMA StepKeepsTrace ==
    ASSUME TraceInv, [Next]_vars
    PROVE  TraceInv'
  <1>1. CASE LaunchNext /\ UNCHANGED step_vars
    BY <1>1, LaunchKeepsTrace
  <1>2. CASE BeforeBusyLoop \/ ProfilingStep \/ EndShape \/ EndProfile
    BY <1>2, PassKeepsTrace
  <1>3. CASE Schedule
    BY <1>3, ScheduleKeepsTrace
  <1>4. CASE Execute
    BY <1>4, ExecuteKeepsTrace
  <1>5. CASE \E k \in options.kinds : AddRequest(k)
    BY <1>5, RequestKeepsTrace
  <1>6. CASE SaveState \/ Shutdown \/ UNCHANGED vars
    <2>1. UNCHANGED <<setup, cycles, options, stage, shape, wave, running, waiting, pool,
                      held, fill, step>>
      BY <1>6 DEF SaveState, Shutdown, vars, launch_vars, cycle_vars, step_vars,
                  profile_vars, queue_vars, buffer_vars
    <2> QED BY <2>1, TraceUnmoved
  <1>7. CASE Relaunch
    <2>1. /\ stage' = "setup" /\ shape' = 1 /\ wave' = 1 /\ running' = <<>> /\ waiting' = <<>>
          /\ pool' = Samples /\ held' = {} /\ fill' = 0 /\ step' = NoStep
          /\ options' = options /\ setup' = setup
          /\ cycles' = [r \in Ranks |-> 0]
      BY <1>7 DEF Relaunch, Restart
    <2>2. options' \in Options /\ \A r \in Ranks' : cycles'[r] = 0
      BY <2>1 DEF TraceInv, PassInv, Ranks
    <2> QED BY <2>1, <2>2, FreshTrace
  <1> QED BY <1>1, <1>2, <1>3, <1>4, <1>5, <1>6, <1>7 DEF Next

\* The two parts together are inductive.
LEMMA TraceInvariant == Spec => []TraceInv
  <1>1. Init => TraceInv
    BY TraceStarts
  <1>2. TraceInv /\ [Next]_vars => TraceInv'
    BY StepKeepsTrace
  <1> QED BY <1>1, <1>2, PTL DEF Spec

\* The launch pass, which drives the scheduler, the runner and the buffer of
\* the server, leaves nothing of it in the server that serves: no request, no
\* row, no sample taken, no work for the child; and every row in the buffer
\* stays that of a sample it holds, for any number of shapes, steps and launches.
THEOREM LaunchLeavesNothing == Spec => []ProfileLeavesNoTrace
  <1>1. TraceInv => ProfileLeavesNoTrace
    <2> SUFFICES ASSUME TraceInv PROVE ProfileLeavesNoTrace
      OBVIOUS
    <2>1. stage = "profile" => pool = Samples /\ \A r \in Ranks : cycles[r] = 0
      BY DEF TraceInv, PassInv
    <2>2. ASSUME stage = "serving", waiting # <<>> PROVE Head(waiting).id # "prof"
      <3>1. IsSeq(waiting) /\ \A i \in DOMAIN waiting : Untouched(waiting[i])
        BY <2>2 DEF TraceInv, ServeInv
      <3>2. Head(waiting) = waiting[1] /\ 1 \in DOMAIN waiting
        BY <2>2, <3>1, IsSeqFacts
      <3> QED BY <3>1, <3>2 DEF Untouched, Resting
    <2>3. stage = "serving" =>
             fill = SumLens(held) /\ \A i \in DOMAIN running : running[i].id # "prof"
      BY DEF TraceInv, ServeInv
    <2> QED BY <2>1, <2>2, <2>3 DEF ProfileLeavesNoTrace
  <1> QED BY <1>1, TraceInvariant, PTL

\* Of a server that serves every step is the one admission judged: no sample is
\* cut, and with all of the queue in it and no last chunk of one token the step
\* has the inference prefill and the decodes admission reasoned on.
THEOREM ServesAsAdmitted == Spec => [](stage = "serving" => StepAsAdmitted)
  <1>1. TraceInv => (stage = "serving" => StepAsAdmitted)
    BY DEF TraceInv, ServeInv, Judged, StepAsAdmitted
  <1> QED BY <1>1, TraceInvariant, PTL
=============================================================================
