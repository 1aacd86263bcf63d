---------------------------- MODULE Logger_proofs ----------------------------
(***************************************************************************)
(* Proofs about the logger, for any number of threads, paths, calls and    *)
(* changes of files by others, for every flush interval and every          *)
(* verbosity.                                                              *)
(***************************************************************************)
EXTENDS Logger, SequenceTheorems, FiniteSetTheorems, WellFoundedInduction, TLAPS

-----------------------------------------------------------------------------
(***************************************************************************)
(* The types that the proofs need.                                         *)
(***************************************************************************)
AtType ==
  [pc : {"idle", "check", "enter", "deliver", "add", "maximum", "header",
         "remove all", "flush"},
   op : {"log", "begin", "end"}, v : Int,
   next : {"idle", "header", "remove all", "flush"}, i : Nat,
   path : Paths \cup {""}, file : Nat, level : Int]

ScopeType  == [v : Int, indents : BOOLEAN]
ThreadType == [at : AtType, scopes : Seq(ScopeType)]

StreamRecord ==
  [path : Paths \cup {"stderr"}, open : BOOLEAN, text : Seq(Nat), flushed : Nat]
StreamType == {s \in StreamRecord : s.flushed <= Len(s.text)}

FileType ==
  [path : Paths, fp : Nat, verbosity : Levels, indentation : Nat, ino : Nat, since : Nat]

Types ==
  /\ g_flush_interval_ms \in Nat /\ g_stderr_verbosity \in Int
  /\ s_callbacks \in Seq(FileType)
  /\ s_max_out_verbosity \in Int
  /\ s_stderr_indentation \in Nat
  /\ s_flush_thread \in {"none", "polls", "flushes"}
  /\ s_mutex \in Threads \cup {"free"}
  /\ th \in [Threads -> ThreadType]
  /\ streams \in Seq(StreamType) /\ Len(streams) >= 1
  /\ disk \in [Paths -> Nat]
  /\ ended \in {"", "aborted", "exited"}
  /\ levels \in Seq(Int)

-----------------------------------------------------------------------------
(* Sequences. *)

LEMMA MakeSeq ==
  ASSUME NEW S, NEW n \in Nat, NEW s \in [1 .. n -> S]
  PROVE  s \in Seq(S) /\ Len(s) = n /\ DOMAIN s = 1 .. n
OBVIOUS

LEMMA FrontOf ==
  ASSUME NEW S, NEW s \in Seq(S), s # <<>>
  PROVE  /\ Front(s) \in Seq(S) /\ Len(Front(s)) = Len(s) - 1
         /\ DOMAIN Front(s) = DOMAIN s \ {Len(s)} /\ Len(s) \in DOMAIN s
         /\ \A k \in DOMAIN Front(s) : Front(s)[k] = s[k]
<1> DEFINE n == Len(s) - 1
<1>1. n \in Nat /\ n + 1 = Len(s) /\ DOMAIN s = 1 .. n + 1
  OBVIOUS
<1>2. /\ SubSeq(s, 1, n) \in Seq(S) /\ Len(SubSeq(s, 1, n)) = n
      /\ \A k \in 1 .. n : SubSeq(s, 1, n)[k] = s[k]
  BY <1>1, SubSeqProperties
<1>3. Front(s) = SubSeq(s, 1, n)
  BY DEF Front
<1>4. DOMAIN Front(s) = 1 .. n
  BY <1>2, <1>3
<1> HIDE DEF n
<1> QED BY <1>1, <1>2, <1>3, <1>4

LEMMA RemovedAt ==
  ASSUME NEW S, NEW s \in Seq(S), NEW i \in DOMAIN s
  PROVE  /\ RemoveAt(s, i) \in Seq(S)
         /\ DOMAIN RemoveAt(s, i) = 1 .. Len(s) - 1
         /\ \A k \in 1 .. Len(s) - 1 :
              RemoveAt(s, i)[k] = IF k < i THEN s[k] ELSE s[k + 1]
<1> DEFINE a == SubSeq(s, 1, i - 1)
           b == SubSeq(s, i + 1, Len(s))
<1>0. Len(s) \in Nat /\ i \in 1 .. Len(s)
  OBVIOUS
<1>1. a \in Seq(S) /\ Len(a) = i - 1 /\ \A k \in 1 .. i - 1 : a[k] = s[k]
  BY <1>0, SubSeqProperties
<1>2. b \in Seq(S) /\ Len(b) = Len(s) - i /\ \A k \in 1 .. Len(s) - i : b[k] = s[i + k]
  BY <1>0, SubSeqProperties
<1> HIDE DEF a, b
<1>3. a \o b \in Seq(S) /\ Len(a \o b) = Len(s) - 1
  BY <1>0, <1>1, <1>2
<1>4. ASSUME NEW k \in 1 .. Len(s) - 1
      PROVE  (a \o b)[k] = IF k < i THEN s[k] ELSE s[k + 1]
  BY <1>0, <1>1, <1>2, ConcatProperties
<1>5. RemoveAt(s, i) = a \o b
  BY DEF RemoveAt, a, b
<1> QED BY <1>0, <1>3, <1>4, <1>5

LEMMA AppendContains ==
  ASSUME NEW text \in Seq(Nat), NEW m \in Nat, NEW n \in Nat
  PROVE  /\ Append(text, m) \in Seq(Nat)
         /\ Contains(Append(text, m), n) <=> Contains(text, n) \/ n = m
<1> DEFINE new == Append(text, m)
<1>1. /\ new \in Seq(Nat) /\ Len(text) \in Nat /\ Len(new) = Len(text) + 1
      /\ new[Len(text) + 1] = m
      /\ \A k \in 1 .. Len(text) : new[k] = text[k]
  OBVIOUS
<1> HIDE DEF new
<1>2. ASSUME NEW k \in 1 .. Len(new), new[k] = n PROVE Contains(text, n) \/ n = m
  BY <1>1, <1>2 DEF Contains
<1>3. ASSUME NEW k \in 1 .. Len(text), text[k] = n PROVE k \in 1 .. Len(new) /\ new[k] = n
  BY <1>1, <1>3
<1>4. Len(text) + 1 \in 1 .. Len(new)
  BY <1>1
<1> QED BY <1>1, <1>2, <1>3, <1>4 DEF Contains

-----------------------------------------------------------------------------
(* Texts: messages have numbers, greater than zero, that grow. *)

InOrder(text) ==
  \A i, j \in DOMAIN text : i < j /\ text[i] > 0 /\ text[j] > 0 => text[i] < text[j]

Below(text, n) == \A k \in DOMAIN text : text[k] <= n

LEMMA AppendMessage ==
  ASSUME NEW text \in Seq(Nat), NEW m \in Nat, m > 0, InOrder(text), Below(text, m - 1)
  PROVE  InOrder(Append(text, m)) /\ Below(Append(text, m), m)
BY DEF InOrder, Below

LEMMA AppendNote ==
  ASSUME NEW text \in Seq(Nat), NEW n \in Nat, InOrder(text), Below(text, n)
  PROVE  InOrder(Append(text, 0)) /\ Below(Append(text, 0), n)
BY DEF InOrder, Below

-----------------------------------------------------------------------------
(* Streams. *)

(* The streams tt are those of ss, of which some may have been flushed. *)
SameTexts(ss, tt) ==
  /\ tt \in Seq(StreamType) /\ Len(tt) = Len(ss)
  /\ \A f \in DOMAIN ss : /\ tt[f].path = ss[f].path /\ tt[f].open = ss[f].open
                          /\ tt[f].text = ss[f].text

LEMMA StreamFields ==
  ASSUME NEW s \in StreamType
  PROVE  /\ s \in StreamRecord
         /\ s.path \in Paths \cup {"stderr"} /\ s.open \in BOOLEAN
         /\ s.text \in Seq(Nat) /\ Len(s.text) \in Nat
         /\ s.flushed \in Nat /\ s.flushed <= Len(s.text)
BY DEF StreamType, StreamRecord

LEMMA FlushedStream ==
  ASSUME NEW s \in StreamType
  PROVE  LET t == [s EXCEPT !.flushed = Len(s.text)]
         IN  /\ t \in StreamType /\ t.path = s.path /\ t.open = s.open
             /\ t.text = s.text /\ t.flushed = Len(t.text)
<1> DEFINE n == Len(s.text)
           t == [s EXCEPT !.flushed = n]
<1>1. s \in StreamRecord /\ n \in Nat
  BY StreamFields
<1> HIDE DEF n
<1>2. /\ t \in StreamRecord /\ t.path = s.path /\ t.open = s.open
      /\ t.text = s.text /\ t.flushed = n
  BY <1>1 DEF StreamRecord
<1> HIDE DEF t
<1>3. t \in StreamType
  BY <1>1, <1>2 DEF StreamType, n
<1> QED BY <1>2, <1>3 DEF t, n

LEMMA ClosedStream ==
  ASSUME NEW s \in StreamType
  PROVE  LET t == [s EXCEPT !.flushed = Len(s.text), !.open = FALSE]
         IN  /\ t \in StreamType /\ t.path = s.path /\ t.text = s.text
             /\ t.flushed = Len(t.text)
<1> DEFINE n == Len(s.text)
           t == [s EXCEPT !.flushed = n, !.open = FALSE]
<1>1. s \in StreamRecord /\ n \in Nat
  BY StreamFields
<1> HIDE DEF n
<1>2. t \in StreamRecord /\ t.path = s.path /\ t.text = s.text /\ t.flushed = n
  BY <1>1 DEF StreamRecord
<1> HIDE DEF t
<1>3. t \in StreamType
  BY <1>1, <1>2 DEF StreamType, n
<1> QED BY <1>2, <1>3 DEF t, n

(* The message m written to one stream, or to some. *)
LEMMA WrittenStream ==
  ASSUME NEW s \in StreamType, NEW m \in Nat
  PROVE  LET t == [s EXCEPT !.text = Append(@, m)]
         IN  /\ t \in StreamType /\ t.path = s.path /\ t.open = s.open
             /\ t.text = Append(s.text, m)
<1> DEFINE new == Append(s.text, m)
           t == [s EXCEPT !.text = new]
<1>1. /\ s \in StreamRecord /\ s.flushed \in Nat /\ Len(s.text) \in Nat
      /\ s.flushed <= Len(s.text)
      /\ new \in Seq(Nat) /\ Len(new) = Len(s.text) + 1
  BY StreamFields
<1> HIDE DEF new
<1>2. /\ t \in StreamRecord /\ t.path = s.path /\ t.open = s.open
      /\ t.text = new /\ t.flushed = s.flushed
  BY <1>1 DEF StreamRecord
<1> HIDE DEF t
<1>3. t.flushed <= Len(t.text)
  BY <1>1, <1>2
<1>4. t \in StreamType
  BY <1>2, <1>3 DEF StreamType
<1> QED BY <1>2, <1>4 DEF t, new

LEMMA FlushedTexts ==
  ASSUME NEW ss \in Seq(StreamType), NEW files
  PROVE  /\ SameTexts(ss, Flushed(ss, files))
         /\ \A f \in DOMAIN ss \cap files : Flushed(ss, files)[f].flushed = Len(ss[f].text)
<1> DEFINE tt == Flushed(ss, files)
<1>1. ASSUME NEW f \in DOMAIN ss
      PROVE  /\ tt[f] \in StreamType /\ tt[f].path = ss[f].path /\ tt[f].open = ss[f].open
             /\ tt[f].text = ss[f].text
             /\ f \in files => tt[f].flushed = Len(ss[f].text)
  <2>1. ss[f] \in StreamType
    BY <1>1
  <2>2. CASE f \in files
    <3>1. tt[f] = [ss[f] EXCEPT !.flushed = Len(ss[f].text)]
      BY <1>1, <2>2 DEF Flushed
    <3> HIDE DEF tt
    <3> QED BY <2>1, <2>2, <3>1, FlushedStream
  <2>3. CASE f \notin files
    BY <1>1, <2>1, <2>3 DEF Flushed
  <2> QED BY <2>2, <2>3
<1>2. tt \in [1 .. Len(ss) -> StreamType]
  <2>1. DOMAIN ss = 1 .. Len(ss)
    OBVIOUS
  <2>2. tt = [f \in 1 .. Len(ss) |-> tt[f]]
    BY <2>1 DEF Flushed
  <2> HIDE DEF tt
  <2> QED BY <1>1, <2>1, <2>2
<1>3. Len(ss) \in Nat
  OBVIOUS
<1> HIDE DEF tt
<1>4. tt \in Seq(StreamType) /\ Len(tt) = Len(ss)
  BY <1>2, <1>3, MakeSeq
<1> QED BY <1>1, <1>4 DEF SameTexts, tt

LEMMA ClosedStreams ==
  ASSUME NEW ss \in Seq(StreamType), NEW files
  PROVE  LET tt == fclose(ss, files)
         IN  /\ tt \in Seq(StreamType) /\ Len(tt) = Len(ss)
             /\ \A f \in DOMAIN ss : /\ tt[f].path = ss[f].path /\ tt[f].text = ss[f].text
                                     /\ f \notin files => tt[f] = ss[f]
<1> DEFINE tt == fclose(ss, files)
<1>1. ASSUME NEW f \in DOMAIN ss
      PROVE  /\ tt[f] \in StreamType /\ tt[f].path = ss[f].path /\ tt[f].text = ss[f].text
             /\ f \notin files => tt[f] = ss[f]
  <2>1. ss[f] \in StreamType
    BY <1>1
  <2>2. CASE f \in files
    <3>1. tt[f] = [ss[f] EXCEPT !.flushed = Len(ss[f].text), !.open = FALSE]
      BY <1>1, <2>2 DEF fclose
    <3> HIDE DEF tt
    <3> QED BY <2>1, <2>2, <3>1, ClosedStream
  <2>3. CASE f \notin files
    BY <1>1, <2>1, <2>3 DEF fclose
  <2> QED BY <2>2, <2>3
<1>2. tt \in [1 .. Len(ss) -> StreamType]
  <2>1. DOMAIN ss = 1 .. Len(ss)
    OBVIOUS
  <2>2. tt = [f \in 1 .. Len(ss) |-> tt[f]]
    BY <2>1 DEF fclose
  <2> HIDE DEF tt
  <2> QED BY <1>1, <2>1, <2>2
<1>3. Len(ss) \in Nat
  OBVIOUS
<1> HIDE DEF tt
<1>4. tt \in Seq(StreamType) /\ Len(tt) = Len(ss)
  BY <1>2, <1>3, MakeSeq
<1> QED BY <1>1, <1>4 DEF tt

LEMMA PrintedStreams ==
  ASSUME NEW ss \in Seq(StreamType), NEW files, NEW m \in Nat
  PROVE  LET tt == fprintf(ss, files, m)
         IN  /\ tt \in Seq(StreamType) /\ Len(tt) = Len(ss)
             /\ \A f \in DOMAIN ss :
                  /\ tt[f].path = ss[f].path /\ tt[f].open = ss[f].open
                  /\ tt[f].text = IF f \in files THEN Append(ss[f].text, m) ELSE ss[f].text
<1> DEFINE tt == fprintf(ss, files, m)
<1>1. ASSUME NEW f \in DOMAIN ss
      PROVE  /\ tt[f] \in StreamType /\ tt[f].path = ss[f].path /\ tt[f].open = ss[f].open
             /\ tt[f].text = IF f \in files THEN Append(ss[f].text, m) ELSE ss[f].text
  <2>1. ss[f] \in StreamType
    BY <1>1
  <2>2. CASE f \in files
    <3>1. tt[f] = [ss[f] EXCEPT !.text = Append(@, m)]
      BY <1>1, <2>2 DEF fprintf
    <3> HIDE DEF tt
    <3> QED BY <2>1, <2>2, <3>1, WrittenStream
  <2>3. CASE f \notin files
    BY <1>1, <2>1, <2>3 DEF fprintf
  <2> QED BY <2>2, <2>3
<1>2. tt \in [1 .. Len(ss) -> StreamType]
  <2>1. DOMAIN ss = 1 .. Len(ss)
    OBVIOUS
  <2>2. tt = [f \in 1 .. Len(ss) |-> tt[f]]
    BY <2>1 DEF fprintf
  <2> HIDE DEF tt
  <2> QED BY <1>1, <2>1, <2>2
<1>3. Len(ss) \in Nat
  OBVIOUS
<1> HIDE DEF tt
<1>4. tt \in Seq(StreamType) /\ Len(tt) = Len(ss)
  BY <1>2, <1>3, MakeSeq
<1> QED BY <1>1, <1>4 DEF tt

LEMMA OpenedStreams ==
  ASSUME NEW ss \in Seq(StreamType), NEW path \in Paths
  PROVE  LET tt == Append(ss, Stream(path))
         IN  /\ tt \in Seq(StreamType) /\ Len(tt) = Len(ss) + 1
             /\ \A f \in DOMAIN ss : tt[f] = ss[f]
             /\ tt[Len(ss) + 1].path = path /\ tt[Len(ss) + 1].open
             /\ tt[Len(ss) + 1].text = <<>>
<1>1. Stream(path) \in StreamType /\ Stream(path).path = path /\ Stream(path).open
      /\ Stream(path).text = <<>>
  BY DEF Stream, StreamType, StreamRecord
<1> QED BY <1>1

-----------------------------------------------------------------------------
(* Threads. *)

LEMMA ThreadsMove ==
  ASSUME th \in [Threads -> ThreadType], NEW t \in Threads,
         NEW at \in AtType, NEW scopes \in Seq(ScopeType), Becomes(t, at, scopes)
  PROVE  /\ th' \in [Threads -> ThreadType]
         /\ th'[t].at = at /\ th'[t].scopes = scopes
         /\ \A u \in Threads \ {t} : th'[u] = th[u]
<1> DEFINE new == [at |-> at, scopes |-> scopes]
<1>1. new \in ThreadType /\ new.at = at /\ new.scopes = scopes
  BY DEF ThreadType
<1>2. th' = [th EXCEPT ![t] = new]
  BY DEF Becomes
<1> HIDE DEF new
<1> QED BY <1>1, <1>2

LEMMA ThreadFields ==
  ASSUME th \in [Threads -> ThreadType], NEW t \in Threads
  PROVE  /\ th[t].at \in AtType /\ th[t].scopes \in Seq(ScopeType)
         /\ th[t].at.pc \in {"idle", "check", "enter", "deliver", "add", "maximum",
                             "header", "remove all", "flush"}
         /\ th[t].at.op \in {"log", "begin", "end"}
         /\ th[t].at.v \in Int /\ th[t].at.i \in Nat /\ th[t].at.file \in Nat
         /\ th[t].at.next \in {"idle", "header", "remove all", "flush"}
BY DEF ThreadType, AtType

(* The places a thread goes to. *)
LEMMA IdleIs == Idle \in AtType /\ Idle.pc = "idle"
BY DEF Idle, AtType, INFO

LEMMA PlaceIs ==
  ASSUME NEW at \in AtType,
         NEW pc \in {"idle", "enter", "deliver", "maximum", "header", "remove all", "flush"}
  PROVE  LET to == [at EXCEPT !.pc = pc]
         IN  /\ to \in AtType /\ to.pc = pc
             /\ to.op = at.op /\ to.v = at.v /\ to.file = at.file /\ to.i = at.i
BY DEF AtType

-----------------------------------------------------------------------------
(* Scopes. *)

LEMMA SameScopes ==
  ASSUME \A t \in Threads : th'[t].scopes = th[t].scopes
  PROVE  /\ OpenScopes' = OpenScopes /\ Indenting' = Indenting
         /\ \A v : (Covering(v))' = Covering(v)
<1>1. OpenScopes' = OpenScopes
  BY DEF OpenScopes
<1>2. \A s \in OpenScopes : Scope(s)' = Scope(s)
  BY DEF OpenScopes, Scope
<1> QED BY <1>1, <1>2 DEF Indenting, Covering

LEMMA MoreScopes ==
  ASSUME th \in [Threads -> ThreadType],
         NEW t \in Threads, NEW s \in ScopeType, NEW n, n = Len(th[t].scopes),
         th'[t].scopes = Append(th[t].scopes, s),
         \A u \in Threads \ {t} : th'[u] = th[u]
  PROVE  /\ <<t, n + 1>> \notin OpenScopes /\ OpenScopes' = OpenScopes \cup {<<t, n + 1>>}
         /\ Indenting' = Indenting \cup IF s.indents THEN {<<t, n + 1>>} ELSE {}
         /\ \A v : (Covering(v))' = Covering(v) \cup IF s.v <= v THEN {<<t, n + 1>>} ELSE {}
<1> DEFINE k == <<t, n + 1>>
<1>1. th[t].scopes \in Seq(ScopeType)
  BY ThreadFields
<1>2. /\ n \in Nat /\ DOMAIN th[t].scopes = 1 .. n /\ DOMAIN th'[t].scopes = 1 .. n + 1
      /\ th'[t].scopes[n + 1] = s
      /\ \A i \in 1 .. n : th'[t].scopes[i] = th[t].scopes[i]
  BY <1>1
<1>3. k \notin OpenScopes
  BY <1>2 DEF OpenScopes
<1>4. OpenScopes' = OpenScopes \cup {k}
  <2>1. ASSUME NEW u \in Threads, NEW i \in DOMAIN th'[u].scopes
        PROVE  <<u, i>> \in OpenScopes \cup {k}
    BY <1>2, <2>1 DEF OpenScopes
  <2>2. ASSUME NEW u \in Threads, NEW i \in DOMAIN th[u].scopes
        PROVE  i \in DOMAIN th'[u].scopes
    BY <1>2, <2>2
  <2>3. n + 1 \in DOMAIN th'[t].scopes
    BY <1>2
  <2> QED BY <2>1, <2>2, <2>3 DEF OpenScopes
<1>5. \A o \in OpenScopes : Scope(o)' = Scope(o)
  BY <1>2 DEF OpenScopes, Scope
<1>6. Scope(k)' = s
  BY <1>2 DEF Scope
<1> HIDE DEF k
<1>7. Indenting' = Indenting \cup IF s.indents THEN {k} ELSE {}
  BY <1>4, <1>5, <1>6, Zenon DEF Indenting
<1>8. ASSUME NEW v PROVE (Covering(v))' = Covering(v) \cup IF s.v <= v THEN {k} ELSE {}
  <2>1. CASE s.v <= v
    BY <1>4, <1>5, <1>6, <2>1 DEF Covering
  <2>2. CASE ~ (s.v <= v)
    BY <1>4, <1>5, <1>6, <2>2 DEF Covering
  <2> QED BY <2>1, <2>2
<1> QED BY <1>3, <1>4, <1>7, <1>8 DEF k

LEMMA FewerScopes ==
  ASSUME th \in [Threads -> ThreadType],
         NEW t \in Threads, th[t].scopes # <<>>, NEW n, n = Len(th[t].scopes),
         th'[t].scopes = Front(th[t].scopes),
         \A u \in Threads \ {t} : th'[u] = th[u]
  PROVE  /\ <<t, n>> \in OpenScopes /\ OpenScopes' = OpenScopes \ {<<t, n>>}
         /\ Scope(<<t, n>>) = Last(th[t].scopes)
         /\ Indenting' = Indenting \ {<<t, n>>}
         /\ \A v : (Covering(v))' = Covering(v) \ {<<t, n>>}
<1> DEFINE k == <<t, n>>
<1>1. th[t].scopes \in Seq(ScopeType)
  BY ThreadFields
<1>2. /\ n \in Nat /\ n > 0 /\ DOMAIN th[t].scopes = 1 .. n
      /\ DOMAIN th'[t].scopes = 1 .. n - 1
      /\ \A i \in 1 .. n - 1 : th'[t].scopes[i] = th[t].scopes[i]
  <2>1. n \in Nat /\ n > 0 /\ DOMAIN th[t].scopes = 1 .. n
    BY <1>1
  <2>2. /\ DOMAIN Front(th[t].scopes) = DOMAIN th[t].scopes \ {Len(th[t].scopes)}
        /\ \A i \in DOMAIN Front(th[t].scopes) : Front(th[t].scopes)[i] = th[t].scopes[i]
    BY <1>1, FrontOf
  <2>3. DOMAIN th'[t].scopes = 1 .. n - 1
    BY <2>1, <2>2
  <2> QED BY <2>1, <2>2, <2>3
<1>3. k \in OpenScopes /\ k \notin OpenScopes'
  BY <1>2 DEF OpenScopes
<1>4. OpenScopes' = OpenScopes \ {k}
  <2>1. ASSUME NEW u \in Threads, NEW i \in DOMAIN th'[u].scopes
        PROVE  i \in DOMAIN th[u].scopes
    BY <1>2, <2>1
  <2>2. ASSUME NEW u \in Threads, NEW i \in DOMAIN th[u].scopes, <<u, i>> # k
        PROVE  i \in DOMAIN th'[u].scopes
    BY <1>2, <2>2
  <2> QED BY <1>3, <2>1, <2>2 DEF OpenScopes
<1>5. \A o \in OpenScopes' : Scope(o)' = Scope(o)
  BY <1>2 DEF OpenScopes, Scope
<1>6. Scope(k) = Last(th[t].scopes)
  BY DEF Scope, Last
<1> HIDE DEF k
<1>7. Indenting' = Indenting \ {k}
  BY <1>4, <1>5 DEF Indenting
<1>8. \A v : (Covering(v))' = Covering(v) \ {k}
  BY <1>4, <1>5 DEF Covering
<1> QED BY <1>3, <1>4, <1>6, <1>7, <1>8 DEF k

-----------------------------------------------------------------------------
(* The files that are registered. *)

SameFile(c, d) ==
  /\ d \in FileType
  /\ d.path = c.path /\ d.verbosity = c.verbosity /\ d.since = c.since

LEMMA FileFields ==
  ASSUME NEW c \in FileType
  PROVE  /\ c.path \in Paths /\ c.fp \in Nat /\ c.verbosity \in Levels
         /\ c.verbosity \in Int /\ c.verbosity >= FATAL
         /\ c.indentation \in Nat /\ c.since \in Nat
BY LevelsAssumption DEF FileType

LEMMA IndentedFile ==
  ASSUME NEW c \in FileType, NEW begins \in BOOLEAN
  PROVE  LET d == [c EXCEPT !.indentation = IF begins THEN @ + 1 ELSE Unindented(@)]
         IN  /\ d \in FileType /\ d.path = c.path /\ d.verbosity = c.verbosity
             /\ d.since = c.since /\ d.fp = c.fp
             /\ d.indentation = IF begins THEN c.indentation + 1
                                ELSE Unindented(c.indentation)
BY DEF FileType, Unindented

LEMMA IndentedFiles ==
  ASSUME s_callbacks \in Seq(FileType), NEW v \in Int, NEW begins \in BOOLEAN
  PROVE  LET cs == Indented(v, begins)
         IN  /\ cs \in Seq(FileType) /\ Len(cs) = Len(s_callbacks)
             /\ DOMAIN cs = DOMAIN s_callbacks
             /\ \A i \in DOMAIN s_callbacks :
                  /\ SameFile(s_callbacks[i], cs[i]) /\ cs[i].fp = s_callbacks[i].fp
                  /\ cs[i].indentation =
                       IF ~ (v <= s_callbacks[i].verbosity) THEN s_callbacks[i].indentation
                       ELSE IF begins THEN s_callbacks[i].indentation + 1
                       ELSE Unindented(s_callbacks[i].indentation)
<1> DEFINE cs == Indented(v, begins)
<1>1. ASSUME NEW i \in DOMAIN s_callbacks
      PROVE  /\ SameFile(s_callbacks[i], cs[i]) /\ cs[i].fp = s_callbacks[i].fp
             /\ cs[i].indentation =
                  IF ~ (v <= s_callbacks[i].verbosity) THEN s_callbacks[i].indentation
                  ELSE IF begins THEN s_callbacks[i].indentation + 1
                  ELSE Unindented(s_callbacks[i].indentation)
  <2> DEFINE c == s_callbacks[i]
             d == [c EXCEPT !.indentation = IF begins THEN @ + 1 ELSE Unindented(@)]
  <2>1. c \in FileType
    BY <1>1
  <2>2. cs[i] = IF v <= c.verbosity THEN d ELSE c
    BY <1>1 DEF Indented
  <2> HIDE DEF c, cs
  <2>3. /\ d \in FileType /\ d.path = c.path /\ d.verbosity = c.verbosity
        /\ d.since = c.since /\ d.fp = c.fp
        /\ d.indentation = IF begins THEN c.indentation + 1 ELSE Unindented(c.indentation)
    BY <2>1, IndentedFile
  <2> HIDE DEF d
  <2>4. /\ SameFile(c, cs[i]) /\ cs[i].fp = c.fp
        /\ cs[i].indentation = IF ~ (v <= c.verbosity) THEN c.indentation
                               ELSE IF begins THEN c.indentation + 1
                               ELSE Unindented(c.indentation)
    BY <2>1, <2>2, <2>3 DEF SameFile
  <2> QED BY <2>4 DEF c
<1>2. cs \in [1 .. Len(s_callbacks) -> FileType]
  <2>1. DOMAIN s_callbacks = 1 .. Len(s_callbacks)
    OBVIOUS
  <2>2. cs = [i \in 1 .. Len(s_callbacks) |-> cs[i]]
    BY <2>1 DEF Indented
  <2> HIDE DEF cs
  <2> QED BY <1>1, <2>1, <2>2 DEF SameFile
<1>3. Len(s_callbacks) \in Nat
  OBVIOUS
<1> HIDE DEF cs
<1>4. cs \in Seq(FileType) /\ Len(cs) = Len(s_callbacks) /\ DOMAIN cs = DOMAIN s_callbacks
  BY <1>2, <1>3, MakeSeq
<1> QED BY <1>1, <1>4 DEF cs

(* The messages about a file that is reopened. *)
LEMMA NotedStreams ==
  ASSUME NEW ss \in Seq(StreamType), NEW i, NEW v
  PROVE  LET tt == Note(ss, i, v)
         IN  /\ tt \in Seq(StreamType) /\ Len(tt) = Len(ss)
             /\ \A f \in DOMAIN ss :
                  /\ tt[f].path = ss[f].path /\ tt[f].open = ss[f].open
                  /\ tt[f].text \in {ss[f].text, Append(ss[f].text, 0)}
<1> DEFINE others == {j \in DOMAIN s_callbacks \ {i} :
                        v <= s_callbacks[j].verbosity /\ s_callbacks[j].fp # 0}
           to == {s_callbacks[j].fp : j \in others}
                 \cup (IF v <= g_stderr_verbosity THEN {1} ELSE {})
           written == fprintf(ss, to, 0)
<1>1. Note(ss, i, v) = IF Buffered THEN written ELSE Flushed(written, to)
  BY DEF Note
<1> HIDE DEF to
<1>2. /\ written \in Seq(StreamType) /\ Len(written) = Len(ss)
      /\ \A f \in DOMAIN ss :
           /\ written[f].path = ss[f].path /\ written[f].open = ss[f].open
           /\ written[f].text = IF f \in to THEN Append(ss[f].text, 0) ELSE ss[f].text
  BY PrintedStreams
<1> HIDE DEF written
<1>3. SameTexts(written, Flushed(written, to))
  BY <1>2, FlushedTexts
<1>4. DOMAIN written = DOMAIN ss
  BY <1>2
<1> QED BY <1>1, <1>2, <1>3, <1>4 DEF SameTexts

-----------------------------------------------------------------------------
(***************************************************************************)
(* The inductive invariant.  While a thread delivers a message or changes  *)
(* the files it holds the mutex.  The files have streams of their own,     *)
(* which are open, and so has the one that is being added.                 *)
(***************************************************************************)
Holders == \A t \in Threads : th[t].at.pc \in {"deliver", "maximum"} => s_mutex = t

IsFile(f, path) == f \in 2 .. Len(streams) /\ streams[f].open /\ streams[f].path = path

FilesAreOpen ==
  \A i \in DOMAIN s_callbacks :
    s_callbacks[i].fp # 0 => IsFile(s_callbacks[i].fp, s_callbacks[i].path)

FilesAreApart ==
  \A i, j \in DOMAIN s_callbacks :
    i # j /\ s_callbacks[i].fp = s_callbacks[j].fp => s_callbacks[i].fp = 0

AddedIsOpen ==
  \A t \in Threads : th[t].at.pc = "add" =>
    /\ t = Main /\ th[t].at.path \in Paths /\ th[t].at.level \in Levels
    /\ IsFile(th[t].at.file, th[t].at.path)
    /\ \A i \in DOMAIN s_callbacks : s_callbacks[i].fp # th[t].at.file

(* The maximum that the macros compare with is right between two changes. *)
MaximumIsKnown ==
  Running /\ ~ Changing =>
    \A i \in DOMAIN s_callbacks : s_callbacks[i].verbosity <= s_max_out_verbosity

(* No text has a message with a number that was not given yet. *)
TextsInOrder ==
  \A f \in DOMAIN streams : InOrder(streams[f].text) /\ Below(streams[f].text, Len(levels))

(* The message in delivery is the last, and has come as far as its thread. *)
HasCome(at, k) ==
  LET c == s_callbacks[k]
  IN  c.fp # 0 =>
        IF k < at.i THEN at.v <= c.verbosity => Contains(streams[c.fp].text, at.file)
                    ELSE Below(streams[c.fp].text, at.file - 1)

Delivering ==
  \A t \in Threads : th[t].at.pc = "deliver" =>
    /\ th[t].at.file = Len(levels) /\ th[t].at.file > 0
    /\ levels[Len(levels)] = th[t].at.v /\ th[t].at.i > 0
    /\ \A k \in DOMAIN s_callbacks : HasCome(th[t].at, k)

Arrived(path, m) ==
  \/ <<path, m>> \in lost
  \/ \E f \in DOMAIN streams : streams[f].path = path /\ Contains(streams[f].text, m)

OnItsWay(k, m) ==
  \E t \in Threads : th[t].at.pc = "deliver" /\ th[t].at.file = m /\ th[t].at.i <= k

Wanted(c, m) == m \in c.since + 1 .. Len(levels) /\ levels[m] <= c.verbosity

Everywhere ==
  \A k \in DOMAIN s_callbacks, m \in Nat :
    Wanted(s_callbacks[k], m) => Arrived(s_callbacks[k].path, m) \/ OnItsWay(k, m)

(* A scope that ends is the last of its thread. *)
Ending ==
  \A t \in Threads :
    /\ th[t].at.pc = "check" => th[t].at.op # "end"
    /\ th[t].at.pc = "enter" /\ th[t].at.op = "end" =>
         th[t].scopes # <<>> /\ Last(th[t].scopes).v = th[t].at.v

ScopesAreCounted == IsFiniteSet(OpenScopes) /\ IndentedByOpenScopes

Core ==
  /\ Types /\ Holders
  /\ FilesAreOpen /\ FilesAreApart /\ AddedIsOpen
  /\ MaximumIsKnown /\ TextsInOrder
  /\ Delivering /\ Everywhere /\ TheLastWordIsWritten
  /\ Ending /\ ScopesAreCounted

IInv == Core /\ DropsOnlyInAChange /\ ClosedOnlyThere

-----------------------------------------------------------------------------
(* One file is given a message: what becomes of it and of the streams. *)

LEMMA LostFile ==
  ASSUME NEW c \in FileType
  PROVE  LET d == [c EXCEPT !.fp = 0]
         IN  /\ d \in FileType /\ d.fp = 0 /\ d.path = c.path
             /\ d.verbosity = c.verbosity /\ d.indentation = c.indentation
             /\ d.since = c.since
BY DEF FileType

(* What file_reopen makes of the streams: notes, and perhaps one more. *)
Noted(ss, tt, fp) ==
  /\ tt \in Seq(StreamType)
  /\ \A f \in DOMAIN ss :
       /\ f \in DOMAIN tt /\ tt[f].path = ss[f].path
       /\ f # fp => tt[f].open = ss[f].open
       /\ tt[f].text \in {ss[f].text, Append(ss[f].text, 0)}

LEMMA Reopened ==
  ASSUME Types, NEW i \in DOMAIN s_callbacks, NEW made, NEW opens \in BOOLEAN,
         IsStale(s_callbacks[i]), NEW r, r = file_reopen(i, made, opens)
  PROVE  LET c == s_callbacks[i]
         IN  /\ SameFile(c, r.c) /\ r.c.indentation = c.indentation
             /\ r.c.fp = IF opens THEN Len(streams) + 1 ELSE 0
             /\ Noted(streams, r.streams, c.fp)
             /\ Len(r.streams) = Len(streams) + IF opens THEN 1 ELSE 0
             /\ opens => LET new == r.streams[Len(streams) + 1]
                         IN  new.path = c.path /\ new.open /\ new.text = <<>>
             /\ r = [c |-> r.c, streams |-> r.streams, misuse |-> r.misuse]
             /\ r.misuse = misuse \/ (~ Buffered /\ r.misuse = misuse \cup {"file_flush"})
<1> DEFINE c == s_callbacks[i]
           shut == fclose(streams, {c.fp} \ {0})
           closed == Note(shut, i, Failed(made, opens))
           d == IF opens THEN [c EXCEPT !.fp = Len(closed) + 1, !.ino = disk[c.path]]
                         ELSE [c EXCEPT !.fp = 0]
           ss == IF opens THEN Append(closed, Stream(c.path)) ELSE closed
           used == misuse \cup IF FlushesItself(i, IF made THEN INFO ELSE ERROR)
                             THEN {"file_flush"} ELSE {}
<1>0. r = [c |-> d, streams |-> ss, misuse |-> used]
  BY DEF file_reopen, Closed
<1>1. c \in FileType /\ streams \in Seq(StreamType) /\ disk[c.path] \in Nat /\ c.path \in Paths
  <2>1. /\ s_callbacks \in Seq(FileType) /\ streams \in Seq(StreamType)
        /\ disk \in [Paths -> Nat]
    BY DEF Types
  <2>2. c \in FileType
    BY <2>1
  <2> HIDE DEF c
  <2> QED BY <2>1, <2>2, FileFields
<1>2. /\ shut \in Seq(StreamType) /\ Len(shut) = Len(streams)
      /\ \A f \in DOMAIN streams : /\ shut[f].path = streams[f].path
                                   /\ shut[f].text = streams[f].text
                                   /\ f # c.fp => shut[f].open = streams[f].open
  BY <1>1, ClosedStreams
<1> HIDE DEF shut, c
<1>3. /\ closed \in Seq(StreamType) /\ Len(closed) = Len(shut)
      /\ \A f \in DOMAIN shut :
           /\ closed[f].path = shut[f].path /\ closed[f].open = shut[f].open
           /\ closed[f].text \in {shut[f].text, Append(shut[f].text, 0)}
  BY <1>2, NotedStreams
<1> HIDE DEF closed
<1>4. DOMAIN shut = DOMAIN streams /\ DOMAIN closed = DOMAIN streams /\ Len(streams) \in Nat
  BY <1>1, <1>2, <1>3
<1>5. /\ SameFile(c, d) /\ d.indentation = c.indentation
      /\ d.fp = IF opens THEN Len(streams) + 1 ELSE 0
  <2>1. Len(closed) + 1 \in Nat /\ Len(closed) = Len(streams)
    BY <1>1, <1>2, <1>3, <1>4
  <2>2. CASE opens
    <3> DEFINE n == Len(closed) + 1
               o == disk[c.path]
    <3>1. d = [c EXCEPT !.fp = n, !.ino = o]
      BY <2>2
    <3>2. n \in Nat /\ o \in Nat /\ n = Len(streams) + 1
      BY <1>1, <2>1
    <3> HIDE DEF n, o, d
    <3>3. /\ d \in FileType /\ d.fp = n /\ d.path = c.path /\ d.verbosity = c.verbosity
          /\ d.indentation = c.indentation /\ d.since = c.since
      BY <1>1, <3>1, <3>2 DEF FileType
    <3> QED BY <2>2, <3>2, <3>3 DEF SameFile
  <2>3. CASE ~ opens
    BY <1>1, <2>3, LostFile DEF SameFile
  <2> QED BY <2>2, <2>3
<1>6. Noted(streams, closed, c.fp)
  BY <1>2, <1>3, <1>4 DEF Noted
<1>7. /\ Noted(streams, ss, c.fp)
      /\ Len(ss) = Len(streams) + IF opens THEN 1 ELSE 0
      /\ opens => LET new == ss[Len(streams) + 1]
                  IN  new.path = c.path /\ new.open /\ new.text = <<>>
  <2>1. CASE opens
    <3>1. /\ ss \in Seq(StreamType) /\ Len(ss) = Len(closed) + 1
          /\ \A f \in DOMAIN closed : ss[f] = closed[f]
          /\ ss[Len(closed) + 1].path = c.path /\ ss[Len(closed) + 1].open
          /\ ss[Len(closed) + 1].text = <<>>
      BY <1>1, <1>3, <2>1, OpenedStreams
    <3> HIDE DEF ss
    <3>2. \A f \in DOMAIN streams : f \in DOMAIN ss
      BY <1>1, <1>2, <1>3, <3>1
    <3>3. Noted(streams, ss, c.fp)
      BY <1>4, <1>6, <3>1, <3>2 DEF Noted
    <3> QED BY <1>2, <1>3, <2>1, <3>1, <3>3
  <2>2. CASE ~ opens
    BY <1>2, <1>3, <1>4, <1>6, <2>2
  <2> QED BY <2>1, <2>2
<1>8. used = misuse \/ (~ Buffered /\ used = misuse \cup {"file_flush"})
  BY DEF FlushesItself
<1> HIDE DEF d, ss, used
<1>9. r.c = d /\ r.streams = ss /\ r.misuse = used
  BY <1>0
<1> QED BY <1>0, <1>5, <1>7, <1>8, <1>9 DEF c

(***************************************************************************)
(* file_log: the message m is at the end of the text of the file c,        *)
(* whether that is the stream it had or a new one, or the file has none.   *)
(* Other texts have at most been given a note.                             *)
(***************************************************************************)
Takes(c, m, r) ==
  LET n == Len(streams)
  IN  /\ SameFile(c, r.c) /\ r.c.indentation = c.indentation
      /\ r.streams \in Seq(StreamType)
      /\ \A f \in DOMAIN streams :
           /\ f \in DOMAIN r.streams /\ r.streams[f].path = streams[f].path
           /\ f # c.fp => r.streams[f].open = streams[f].open
           /\ f # r.c.fp =>
                r.streams[f].text \in {streams[f].text, Append(streams[f].text, 0)}
      /\ \/ /\ r.c.fp = 0 /\ Len(r.streams) = n
         \/ /\ r.c.fp = c.fp /\ c.fp # 0 /\ Len(r.streams) = n
            /\ r.streams[c.fp].open = streams[c.fp].open
            /\ r.streams[c.fp].text = Append(streams[c.fp].text, m)
         \/ /\ r.c.fp = n + 1 /\ Len(r.streams) = n + 1
            /\ r.streams[n + 1].open /\ r.streams[n + 1].path = c.path
            /\ r.streams[n + 1].text = Append(<<>>, m)
      /\ r.misuse = misuse \/ (~ Buffered /\ r.misuse = misuse \cup {"file_flush"})

LEMMA Logged ==
  ASSUME Types, FilesAreOpen, NEW t \in Threads, NEW i \in DOMAIN s_callbacks,
         NEW checks \in BOOLEAN, NEW made \in BOOLEAN, NEW opens \in BOOLEAN
  PROVE  Takes(s_callbacks[i], Sent(t), file_log(t, i, checks, made, opens))
<1> PICK r : r = file_log(t, i, checks, made, opens)
  OBVIOUS
<1> DEFINE c == s_callbacks[i]
           n == Len(streams)
           q == IF checks THEN file_reopen(i, made, opens) ELSE Unchecked(i)
<1>1. /\ c \in FileType /\ streams \in Seq(StreamType) /\ n \in Nat /\ Sent(t) \in Nat
      /\ c.fp # 0 => c.fp \in 2 .. n /\ streams[c.fp].open
  <2>1. /\ s_callbacks \in Seq(FileType) /\ streams \in Seq(StreamType)
        /\ th \in [Threads -> ThreadType]
    BY DEF Types
  <2>2. c \in FileType /\ n \in Nat
    BY <2>1
  <2>3. Sent(t) \in Nat
    BY <2>1, ThreadFields DEF Sent
  <2>4. c.fp # 0 => c.fp \in 2 .. n /\ streams[c.fp].open
    BY DEF FilesAreOpen, IsFile
  <2> QED BY <2>1, <2>2, <2>3, <2>4
<1>2. r = IF q.c.fp = 0 THEN q
          ELSE [q EXCEPT !.streams = fprintf(@, {q.c.fp}, Sent(t)),
                         !.misuse = IF q.streams[q.c.fp].open THEN @ ELSE @ \cup {"file_log"}]
  BY DEF file_log
<1>3. /\ SameFile(c, q.c) /\ q.c.indentation = c.indentation
      /\ Noted(streams, q.streams, c.fp)
      /\ q = [c |-> q.c, streams |-> q.streams, misuse |-> q.misuse]
      /\ q.misuse = misuse \/ (~ Buffered /\ q.misuse = misuse \cup {"file_flush"})
      /\ \/ q.c.fp = 0 /\ Len(q.streams) = n
         \/ q.c.fp = c.fp /\ c.fp # 0 /\ q.streams = streams
         \/ /\ q.c.fp = n + 1 /\ Len(q.streams) = n + 1
            /\ q.streams[n + 1].path = c.path /\ q.streams[n + 1].open
            /\ q.streams[n + 1].text = <<>>
  <2>1. CASE checks /\ IsStale(c)
    <3>1. q = file_reopen(i, made, opens)
      BY <2>1
    <3>2. Types /\ IsStale(s_callbacks[i])
      BY <2>1
    <3> HIDE DEF q
    <3>3. /\ SameFile(c, q.c) /\ q.c.indentation = c.indentation
          /\ q.c.fp = IF opens THEN Len(streams) + 1 ELSE 0
          /\ Noted(streams, q.streams, c.fp)
          /\ Len(q.streams) = Len(streams) + IF opens THEN 1 ELSE 0
          /\ opens => LET new == q.streams[Len(streams) + 1]
                      IN  new.path = c.path /\ new.open /\ new.text = <<>>
          /\ q = [c |-> q.c, streams |-> q.streams, misuse |-> q.misuse]
          /\ q.misuse = misuse \/ (~ Buffered /\ q.misuse = misuse \cup {"file_flush"})
      BY <3>1, <3>2, Reopened
    <3> QED BY <1>1, <3>3
  <2>2. CASE ~ (checks /\ IsStale(c))
    <3>1. q = [c |-> c, streams |-> streams, misuse |-> misuse]
      BY <2>2 DEF file_reopen, Unchecked
    <3> HIDE DEF q
    <3>2. SameFile(c, c) /\ Noted(streams, streams, c.fp)
      BY <1>1 DEF SameFile, Noted
    <3> QED BY <1>1, <3>1, <3>2
  <2> QED BY <2>1, <2>2
<1> HIDE DEF q
<1>4. CASE q.c.fp = 0
  BY <1>1, <1>2, <1>3, <1>4 DEF Noted, Takes
<1>5. CASE q.c.fp # 0
  <2> DEFINE ss == fprintf(q.streams, {q.c.fp}, Sent(t))
             used == IF q.streams[q.c.fp].open THEN q.misuse ELSE q.misuse \cup {"file_log"}
  <2>1. q.streams[q.c.fp].open /\ q.streams \in Seq(StreamType) /\ q.c.fp \in DOMAIN q.streams
    <3>1. q.streams \in Seq(StreamType)
      BY <1>3 DEF Noted
    <3> QED BY <1>1, <1>3, <1>5, <3>1
  <2>2. used = q.misuse
    BY <2>1
  <2>3. r = [q EXCEPT !.streams = ss, !.misuse = used]
    BY <1>2, <1>5
  <2> HIDE DEF used
  <2>4. /\ ss \in Seq(StreamType) /\ Len(ss) = Len(q.streams)
        /\ \A f \in DOMAIN q.streams :
             /\ ss[f].path = q.streams[f].path /\ ss[f].open = q.streams[f].open
             /\ ss[f].text = IF f \in {q.c.fp} THEN Append(q.streams[f].text, Sent(t))
                             ELSE q.streams[f].text
    BY <1>1, <2>1, PrintedStreams
  <2> HIDE DEF ss
  <2>5. r.c = q.c /\ r.streams = ss /\ r.misuse = q.misuse
    BY <1>3, <2>2, <2>3
  <2>6. \A f \in DOMAIN streams : f \in DOMAIN q.streams
    BY <1>3 DEF Noted
  <2>7. \A f \in DOMAIN streams :
          /\ f \in DOMAIN ss /\ ss[f].path = streams[f].path
          /\ f # c.fp => ss[f].open = streams[f].open
          /\ f # q.c.fp => ss[f].text \in {streams[f].text, Append(streams[f].text, 0)}
    BY <1>3, <2>1, <2>4, <2>6 DEF Noted
  <2>8. \/ /\ q.c.fp = c.fp /\ c.fp # 0 /\ Len(ss) = n
           /\ ss[c.fp].open = streams[c.fp].open
           /\ ss[c.fp].text = Append(streams[c.fp].text, Sent(t))
        \/ /\ q.c.fp = n + 1 /\ Len(ss) = n + 1
           /\ ss[n + 1].open /\ ss[n + 1].path = c.path
           /\ ss[n + 1].text = Append(<<>>, Sent(t))
    <3>1. PICK f : f = q.c.fp
      OBVIOUS
    <3>2. ss[f].open = q.streams[f].open /\ ss[f].path = q.streams[f].path
      BY <2>1, <2>4, <3>1
    <3>3. ss[f].text = Append(q.streams[f].text, Sent(t)) /\ Len(ss) = Len(q.streams)
      BY <2>1, <2>4, <3>1
    <3> QED BY <1>1, <1>3, <1>5, <3>1, <3>2, <3>3
  <2>9. /\ SameFile(c, r.c) /\ r.c.indentation = c.indentation
        /\ r.misuse = misuse \/ (~ Buffered /\ r.misuse = misuse \cup {"file_flush"})
        /\ r.streams \in Seq(StreamType)
    BY <1>3, <2>4, <2>5
  <2>10. PICK e, m : e = r.c /\ m = Sent(t)
    OBVIOUS
  <2>11. /\ e = q.c /\ SameFile(c, e) /\ r.streams = ss
         /\ \A f \in DOMAIN streams :
              /\ f \in DOMAIN ss /\ ss[f].path = streams[f].path
              /\ f # c.fp => ss[f].open = streams[f].open
              /\ f # e.fp => ss[f].text \in {streams[f].text, Append(streams[f].text, 0)}
    BY <2>5, <2>7, <2>9, <2>10
  <2>12. \/ /\ e.fp = c.fp /\ c.fp # 0 /\ Len(ss) = n
            /\ ss[c.fp].open = streams[c.fp].open
            /\ ss[c.fp].text = Append(streams[c.fp].text, m)
         \/ /\ e.fp = n + 1 /\ Len(ss) = n + 1
            /\ ss[n + 1].open /\ ss[n + 1].path = c.path
            /\ ss[n + 1].text = Append(<<>>, m)
    BY <2>8, <2>10, <2>11
  <2> HIDE DEF c
  <2>13. Takes(c, m, r)
    BY <2>9, <2>10, <2>11, <2>12 DEF Takes
  <2> QED BY <2>10, <2>13 DEF c
<1> QED BY <1>4, <1>5

-----------------------------------------------------------------------------
(***************************************************************************)
(* Steps that neither deliver a message nor change the files: threads may  *)
(* move on, streams may be flushed.                                        *)
(***************************************************************************)
MovesQuietly(u) ==
  /\ th'[u].scopes = th[u].scopes
  /\ \/ th'[u].at = th[u].at
     \/ /\ th[u].at.pc \notin {"deliver", "maximum"}
        /\ th'[u].at.pc \notin {"deliver", "maximum", "add"}
        /\ th'[u].at.pc = "check" => th'[u].at.op # "end"
        /\ th'[u].at.pc = "enter" /\ th'[u].at.op = "end" =>
             th[u].scopes # <<>> /\ Last(th[u].scopes).v = th'[u].at.v

Quiet ==
  /\ Running /\ ended' = ended
  /\ UNCHANGED <<settings, s_callbacks, s_max_out_verbosity, s_stderr_indentation,
                 s_mutex, levels, lost>>
  /\ s_flush_thread' \in {"none", "polls", "flushes"}
  /\ disk' \in [Paths -> Nat]
  /\ SameTexts(streams, streams')
  /\ th' \in [Threads -> ThreadType]
  /\ \A u \in Threads : MovesQuietly(u)

LEMMA QuietStep == ASSUME Core, Quiet PROVE Core'
<1>1. Types'
  BY DEF Core, Types, Quiet, SameTexts, settings
<1>2. Holders'
  BY DEF Core, Holders, Quiet, MovesQuietly
<1>3. /\ Len(streams') = Len(streams) /\ Len(streams) \in Nat
      /\ DOMAIN streams = 1 .. Len(streams) /\ DOMAIN streams' = DOMAIN streams
      /\ \A f \in DOMAIN streams : /\ streams'[f].path = streams[f].path
                                  /\ streams'[f].open = streams[f].open
                                  /\ streams'[f].text = streams[f].text
  <2>1. streams \in Seq(StreamType) /\ streams' \in Seq(StreamType) /\ SameTexts(streams, streams')
    BY DEF Core, Types, Quiet, SameTexts
  <2> QED BY <2>1 DEF SameTexts
<1>4. \A f, path : IsFile(f, path) => IsFile(f, path)'
  BY <1>3 DEF IsFile
<1>5. FilesAreOpen' /\ FilesAreApart'
  BY <1>4 DEF Core, FilesAreOpen, FilesAreApart, Quiet
<1>6. AddedIsOpen'
  BY <1>4 DEF Core, AddedIsOpen, Quiet, MovesQuietly
<1>7. MaximumIsKnown'
  BY DEF Core, MaximumIsKnown, Quiet, MovesQuietly, Running, Changing
<1>8. TextsInOrder'
  BY <1>3 DEF Core, TextsInOrder, Quiet
<1>9. ASSUME NEW u \in Threads, th'[u].at.pc = "deliver"
      PROVE  th'[u].at = th[u].at
  BY <1>9 DEF Quiet, MovesQuietly
<1>10. Delivering'
  <2>1. ASSUME NEW at, NEW k \in DOMAIN s_callbacks, HasCome(at, k) PROVE HasCome(at, k)'
    <3>1. s_callbacks[k].fp # 0 => s_callbacks[k].fp \in DOMAIN streams
      BY <1>3 DEF Core, FilesAreOpen, IsFile
    <3>2. s_callbacks' = s_callbacks
      BY DEF Quiet
    <3> QED BY <1>3, <2>1, <3>1, <3>2 DEF HasCome
  <2> QED BY <1>9, <2>1 DEF Core, Delivering, Quiet
<1>11. Everywhere'
  <2>1. ASSUME NEW path, NEW m, Arrived(path, m) PROVE Arrived(path, m)'
    BY <1>3, <2>1 DEF Arrived, Quiet
  <2>2. ASSUME NEW k, NEW m, OnItsWay(k, m) PROVE OnItsWay(k, m)'
    BY <2>2 DEF OnItsWay, Quiet, MovesQuietly
  <2>3. ASSUME NEW c, NEW m, Wanted(c, m)' PROVE Wanted(c, m)
    BY <2>3 DEF Wanted, Quiet
  <2> QED BY <2>1, <2>2, <2>3 DEF Core, Everywhere, Quiet
<1>12. TheLastWordIsWritten'
  BY DEF TheLastWordIsWritten, Quiet, Running
<1>13. Ending'
  BY DEF Core, Ending, Quiet, MovesQuietly
<1>14. ScopesAreCounted'
  BY SameScopes DEF Core, ScopesAreCounted, IndentedByOpenScopes, Quiet, MovesQuietly
<1> QED BY <1>1, <1>2, <1>5, <1>6, <1>7, <1>8, <1>10, <1>11, <1>12, <1>13, <1>14 DEF Core

-----------------------------------------------------------------------------
(* What the steps need again and again. *)

LEMMA CoreTypes ==
  ASSUME Core
  PROVE  /\ streams \in Seq(StreamType) /\ Len(streams) \in Nat /\ Len(streams) >= 1
         /\ DOMAIN streams = 1 .. Len(streams)
         /\ \A f \in DOMAIN streams : streams[f] \in StreamType /\ streams[f].text \in Seq(Nat)
         /\ s_callbacks \in Seq(FileType) /\ Len(s_callbacks) \in Nat
         /\ DOMAIN s_callbacks = 1 .. Len(s_callbacks)
         /\ \A k \in DOMAIN s_callbacks :
              /\ s_callbacks[k] \in FileType /\ s_callbacks[k].path \in Paths
              /\ s_callbacks[k].fp \in Nat /\ s_callbacks[k].verbosity \in Int
              /\ s_callbacks[k].fp # 0 => s_callbacks[k].fp \in 2 .. Len(streams)
         /\ levels \in Seq(Int) /\ Len(levels) \in Nat
         /\ th \in [Threads -> ThreadType]
<1>1. /\ streams \in Seq(StreamType) /\ Len(streams) >= 1 /\ levels \in Seq(Int)
      /\ s_callbacks \in Seq(FileType) /\ th \in [Threads -> ThreadType]
  BY DEF Core, Types
<1>2. \A f \in DOMAIN streams : streams[f] \in StreamType /\ streams[f].text \in Seq(Nat)
  BY <1>1, StreamFields
<1>3. \A k \in DOMAIN s_callbacks :
        /\ s_callbacks[k] \in FileType /\ s_callbacks[k].path \in Paths
        /\ s_callbacks[k].fp \in Nat /\ s_callbacks[k].verbosity \in Int
  BY <1>1, FileFields
<1>4. \A k \in DOMAIN s_callbacks :
        s_callbacks[k].fp # 0 => s_callbacks[k].fp \in 2 .. Len(streams)
  BY DEF Core, FilesAreOpen, IsFile
<1> QED BY <1>1, <1>2, <1>3, <1>4

LEMMA NobodyHolds ==
  ASSUME Core, s_mutex = "free", NEW u \in Threads
  PROVE  th[u].at.pc \notin {"deliver", "maximum"}
BY ThreadsAssumption DEF Core, Holders

LEMMA BelowMore ==
  ASSUME NEW text \in Seq(Nat), NEW n \in Nat, Below(text, n)
  PROVE  Below(text, n + 1)
BY DEF Below

LEMMA CountedTypes ==
  ASSUME ScopesAreCounted
  PROVE  /\ IsFiniteSet(Indenting) /\ Cardinality(Indenting) \in Nat
         /\ s_stderr_indentation = Cardinality(Indenting)
         /\ \A v : IsFiniteSet(Covering(v)) /\ Cardinality(Covering(v)) \in Nat
<1>1. IsFiniteSet(OpenScopes)
  BY DEF ScopesAreCounted
<1>2. IsFiniteSet(Indenting) /\ \A v : IsFiniteSet(Covering(v))
  BY <1>1, FS_Subset DEF Indenting, Covering
<1> QED BY <1>2, FS_CardinalityType DEF ScopesAreCounted, IndentedByOpenScopes

-----------------------------------------------------------------------------
(***************************************************************************)
(* The steps of log_message.                                               *)
(***************************************************************************)
LEMMA EnterKeepsScopes ==
  ASSUME Core, NEW t \in Threads, Enter(t) PROVE ScopesAreCounted'
<1> DEFINE at == th[t].at
           scopes == IF at.op = "end" THEN Front(th[t].scopes) ELSE th[t].scopes
<1>0. /\ th \in [Threads -> ThreadType] /\ th[t].scopes \in Seq(ScopeType) /\ at.v \in Int
      /\ s_callbacks \in Seq(FileType)
  BY CoreTypes, ThreadFields
<1>1. th'[t].scopes = scopes /\ \A u \in Threads \ {t} : th'[u] = th[u]
  BY <1>0 DEF Enter, Becomes
<1>2. CASE at.op # "end"
  <2>1. \A u \in Threads : th'[u].scopes = th[u].scopes
    BY <1>1, <1>2
  <2>2. UNCHANGED <<s_callbacks, s_stderr_indentation>>
    BY <1>2 DEF Enter
  <2> QED BY <2>1, <2>2, SameScopes DEF Core, ScopesAreCounted, IndentedByOpenScopes
<1>3. CASE at.op = "end"
  <2> DEFINE k == <<t, Len(th[t].scopes)>>
  <2>1. th[t].scopes # <<>> /\ Last(th[t].scopes).v = at.v
    BY <1>3 DEF Core, Ending, Enter, At
  <2>2. PICK n : n = Len(th[t].scopes)
    OBVIOUS
  <2>3. /\ <<t, n>> \in OpenScopes /\ OpenScopes' = OpenScopes \ {<<t, n>>}
        /\ Scope(<<t, n>>) = Last(th[t].scopes)
        /\ Indenting' = Indenting \ {<<t, n>>}
        /\ \A v : (Covering(v))' = Covering(v) \ {<<t, n>>}
    BY <1>0, <1>1, <1>3, <2>1, <2>2, FewerScopes
  <2>4. IsFiniteSet(OpenScopes')
    BY <2>3, FS_RemoveElement DEF Core, ScopesAreCounted
  <2>5. s_stderr_indentation' = Cardinality(Indenting')
    <3>1. s_stderr_indentation' = IF Last(th[t].scopes).indents
                                  THEN Unindented(s_stderr_indentation) ELSE s_stderr_indentation
      BY <1>3 DEF Enter
    <3>2. Last(th[t].scopes).indents <=> <<t, n>> \in Indenting
      BY <2>3 DEF Indenting
    <3>3. /\ IsFiniteSet(Indenting) /\ Cardinality(Indenting) \in Nat
          /\ s_stderr_indentation = Cardinality(Indenting)
      BY CountedTypes DEF Core
    <3>4. Cardinality(Indenting') = IF <<t, n>> \in Indenting THEN Cardinality(Indenting) - 1
                                    ELSE Cardinality(Indenting)
      BY <2>3, <3>3, FS_RemoveElement
    <3>5. <<t, n>> \in Indenting => Cardinality(Indenting) # 0
      BY <3>3, FS_EmptySet
    <3> QED BY <3>1, <3>2, <3>3, <3>4, <3>5 DEF Unindented
  <2>6. ASSUME NEW i \in DOMAIN s_callbacks'
        PROVE  (s_callbacks[i].indentation <= Cardinality(Covering(s_callbacks[i].verbosity)))'
    <3> DEFINE d == s_callbacks[i].indentation
    <3>0. PICK v : v = s_callbacks[i].verbosity
      OBVIOUS
    <3>1. s_callbacks' = Indented(at.v, FALSE)
      BY <1>3 DEF Enter
    <3>2. /\ i \in DOMAIN s_callbacks
          /\ s_callbacks'[i].verbosity = v
          /\ s_callbacks'[i].indentation = IF ~ (at.v <= v) THEN d ELSE Unindented(d)
      BY <1>0, <2>6, <3>0, <3>1, IndentedFiles DEF SameFile
    <3>3. d \in Nat /\ d <= Cardinality(Covering(v)) /\ v \in Int
      BY <1>0, <3>0, <3>2, FileFields DEF Core, ScopesAreCounted, IndentedByOpenScopes
    <3>4. at.v <= v <=> <<t, n>> \in Covering(v)
      BY <2>1, <2>3 DEF Covering
    <3>5. IsFiniteSet(Covering(v)) /\ Cardinality(Covering(v)) \in Nat
      BY CountedTypes DEF Core
    <3> HIDE DEF d
    <3>6. Cardinality(Covering(v) \ {<<t, n>>}) =
            IF <<t, n>> \in Covering(v) THEN Cardinality(Covering(v)) - 1
            ELSE Cardinality(Covering(v))
      BY <3>5, FS_RemoveElement
    <3>7. <<t, n>> \in Covering(v) => Cardinality(Covering(v)) # 0
      BY <3>5, FS_EmptySet
    <3>8. s_callbacks'[i].indentation <= Cardinality(Covering(v) \ {<<t, n>>})
      BY <3>2, <3>3, <3>4, <3>5, <3>6, <3>7 DEF Unindented
    <3>9. (Covering(v))' = Covering(v) \ {<<t, n>>}
      BY <2>3
    <3> QED BY <3>2, <3>8, <3>9
  <2> QED BY <2>4, <2>5, <2>6 DEF ScopesAreCounted, IndentedByOpenScopes
<1> QED BY <1>2, <1>3

LEMMA EnterStep == ASSUME Core, NEW t \in Threads, Enter(t) PROVE Core'
<1> DEFINE at == th[t].at
           m == Len(levels) + 1
           to == [at EXCEPT !.pc = "deliver", !.i = 1, !.file = m]
           scopes == IF at.op = "end" THEN Front(th[t].scopes) ELSE th[t].scopes
           toStderr == at.v <= g_stderr_verbosity
           written == IF toStderr THEN fprintf(streams, {1}, m) ELSE streams
<1>0. /\ Running /\ at.pc = "enter" /\ s_mutex = "free" /\ s_mutex' = t
      /\ levels' = Append(levels, at.v)
      /\ streams' = IF Buffered THEN written ELSE Flushed(written, {1})
      /\ Becomes(t, to, scopes)
      /\ UNCHANGED <<settings, s_max_out_verbosity, s_flush_thread, disk, ended, lost>>
  BY DEF Enter, At, MayEnter
<1>1. /\ at \in AtType /\ at.v \in Int /\ th[t].scopes \in Seq(ScopeType) /\ m \in Nat
      /\ at.op = "end" => th[t].scopes # <<>>
  <2>1. at.op = "end" => th[t].scopes # <<>>
    BY <1>0 DEF Core, Ending
  <2>2. at \in AtType /\ at.v \in Int /\ th[t].scopes \in Seq(ScopeType)
    BY CoreTypes, ThreadFields
  <2>3. m \in Nat
    BY CoreTypes
  <2> QED BY <2>1, <2>2, <2>3
<1>2. /\ to \in AtType /\ to.pc = "deliver" /\ to.i = 1 /\ to.file = m /\ to.v = at.v
  BY <1>1 DEF AtType
<1>3. scopes \in Seq(ScopeType)
  BY <1>1, FrontOf
<1> HIDE DEF to, scopes
<1>4. /\ th' \in [Threads -> ThreadType] /\ th'[t].at = to
      /\ \A u \in Threads \ {t} : th'[u] = th[u]
  BY <1>0, <1>2, <1>3, CoreTypes, ThreadsMove
<1>5. /\ s_callbacks' \in Seq(FileType) /\ DOMAIN s_callbacks' = DOMAIN s_callbacks
      /\ \A k \in DOMAIN s_callbacks : /\ SameFile(s_callbacks[k], s_callbacks'[k])
                                      /\ s_callbacks'[k].fp = s_callbacks[k].fp
  <2>1. CASE at.op = "end"
    BY <1>1, <2>1, CoreTypes, IndentedFiles DEF Enter
  <2>2. CASE at.op # "end"
    BY <2>2, CoreTypes DEF Enter, SameFile
  <2> QED BY <2>1, <2>2
<1>6. /\ streams' \in Seq(StreamType) /\ Len(streams') = Len(streams)
      /\ DOMAIN streams' = DOMAIN streams
      /\ \A f \in DOMAIN streams :
           /\ streams'[f].path = streams[f].path /\ streams'[f].open = streams[f].open
           /\ streams'[f].text \in {streams[f].text, Append(streams[f].text, m)}
           /\ f # 1 => streams'[f].text = streams[f].text
  <2>1. /\ written \in Seq(StreamType) /\ Len(written) = Len(streams)
        /\ \A f \in DOMAIN streams :
             /\ written[f].path = streams[f].path /\ written[f].open = streams[f].open
             /\ written[f].text = IF f \in {1} /\ toStderr THEN Append(streams[f].text, m)
                                  ELSE streams[f].text
    BY <1>1, CoreTypes, PrintedStreams
  <2> HIDE DEF written
  <2>2. SameTexts(written, Flushed(written, {1}))
    BY <2>1, FlushedTexts
  <2>3. DOMAIN written = DOMAIN streams
    BY <2>1, CoreTypes
  <2>4. CASE Buffered
    BY <1>0, <2>1, <2>3, <2>4, CoreTypes
  <2>5. CASE ~ Buffered
    <3>1. SameTexts(written, streams')
      BY <1>0, <2>2, <2>5
    <3>2. streams' \in Seq(StreamType) /\ Len(streams') = Len(streams)
      BY <2>1, <3>1 DEF SameTexts
    <3>3. DOMAIN streams' = DOMAIN streams
      BY <3>2, CoreTypes
    <3> QED BY <2>1, <2>3, <3>1, <3>2, <3>3 DEF SameTexts
  <2> QED BY <2>4, <2>5
<1>7. levels' \in Seq(Int) /\ Len(levels') = m /\ levels'[m] = at.v
      /\ \A k \in 1 .. Len(levels) : levels'[k] = levels[k]
  BY <1>0, <1>1, CoreTypes
<1> HIDE DEF written, toStderr
<1>8. \A u \in Threads : th[u].at.pc \notin {"deliver", "maximum"}
  BY <1>0, NobodyHolds
<1>9. Types'
  <2>1. s_stderr_indentation' \in Nat
    <3>1. s_stderr_indentation' \in {s_stderr_indentation, Unindented(s_stderr_indentation)}
      BY DEF Enter
    <3>2. s_stderr_indentation \in Nat
      BY DEF Core, Types
    <3> QED BY <3>1, <3>2 DEF Unindented
  <2> QED BY <1>0, <1>4, <1>5, <1>6, <1>7, <2>1 DEF Core, Types, settings
<1>10. Holders'
  BY <1>0, <1>4, <1>8 DEF Holders
<1>11. \A f, path : IsFile(f, path) => IsFile(f, path)'
  BY <1>6, CoreTypes DEF IsFile
<1>12. FilesAreOpen' /\ FilesAreApart'
  BY <1>5, <1>11 DEF Core, FilesAreOpen, FilesAreApart, SameFile
<1>13. AddedIsOpen'
  BY <1>2, <1>4, <1>5, <1>11 DEF Core, AddedIsOpen
<1>14. MaximumIsKnown'
  BY <1>0, <1>5, <1>8 DEF Core, MaximumIsKnown, Running, Changing, SameFile
<1>15. TextsInOrder'
  <2>1. ASSUME NEW f \in DOMAIN streams
        PROVE  InOrder(streams'[f].text) /\ Below(streams'[f].text, m)
    <3>1. InOrder(streams[f].text) /\ Below(streams[f].text, m - 1) /\ m > 0 /\ m - 1 \in Nat
      BY CoreTypes DEF Core, TextsInOrder
    <3>2. streams[f].text \in Seq(Nat)
      BY CoreTypes
    <3>3. Below(streams[f].text, m)
      BY <3>1, <3>2, BelowMore, CoreTypes
    <3> QED BY <1>1, <1>6, <3>1, <3>2, <3>3, AppendMessage
  <2> QED BY <1>6, <1>7, <2>1 DEF TextsInOrder
<1>16. Delivering'
  <2>1. PICK a : a = to
    OBVIOUS
  <2>2. ASSUME NEW k \in DOMAIN s_callbacks' PROVE HasCome(a, k)'
    <3>1. s_callbacks[k].fp # 0 => s_callbacks[k].fp \in DOMAIN streams /\ s_callbacks[k].fp # 1
      BY <1>5, CoreTypes
    <3>2. s_callbacks[k].fp # 0 => Below(streams'[s_callbacks[k].fp].text, m - 1)
      BY <1>6, <3>1, CoreTypes DEF Core, TextsInOrder
    <3>3. k >= 1 /\ k \in Nat
      BY <1>5, CoreTypes
    <3>4. s_callbacks'[k].fp = s_callbacks[k].fp /\ a.i = 1 /\ a.file = m
      BY <1>2, <1>5, <2>1
    <3> QED BY <3>2, <3>3, <3>4 DEF HasCome
  <2>3. th'[t].at = a /\ \A u \in Threads \ {t} : th'[u].at.pc # "deliver"
    BY <1>4, <1>8, <2>1
  <2>4. a.file = Len(levels') /\ a.file > 0 /\ levels'[Len(levels')] = a.v /\ a.i > 0
    BY <1>1, <1>2, <1>7, <2>1, CoreTypes
  <2>5. DOMAIN s_callbacks' = DOMAIN s_callbacks
    BY <1>5
  <2> QED BY <2>2, <2>3, <2>4 DEF Delivering
<1>17. Everywhere'
  <2>1. SUFFICES ASSUME NEW k \in DOMAIN s_callbacks', NEW n \in Nat,
                        Wanted(s_callbacks[k], n)'
                 PROVE  Arrived(s_callbacks[k].path, n)' \/ OnItsWay(k, n)'
    BY DEF Everywhere
  <2>2. CASE n = m
    <3>1. th'[t].at.pc = "deliver" /\ th'[t].at.file = n /\ th'[t].at.i = 1
      BY <1>2, <1>4, <2>2
    <3>2. 1 <= k
      BY <1>5, CoreTypes
    <3> QED BY <3>1, <3>2 DEF OnItsWay
  <2>3. CASE n # m
    <3>1. Wanted(s_callbacks[k], n)
      <4>1. /\ s_callbacks'[k].since = s_callbacks[k].since /\ s_callbacks[k].since \in Nat
            /\ s_callbacks'[k].verbosity = s_callbacks[k].verbosity
        BY <1>5, CoreTypes, FileFields DEF SameFile
      <4>2. /\ n \in s_callbacks[k].since + 1 .. Len(levels')
            /\ levels'[n] <= s_callbacks[k].verbosity
        BY <2>1, <4>1 DEF Wanted
      <4>3. n \in 1 .. Len(levels)
        BY <1>7, <2>3, <4>1, <4>2, CoreTypes
      <4> QED BY <1>7, <4>1, <4>2, <4>3 DEF Wanted
    <3>2. Arrived(s_callbacks[k].path, n)
      BY <1>0, <1>5, <1>8, <2>1, <3>1 DEF Core, Everywhere, OnItsWay
    <3>3. ASSUME NEW f \in DOMAIN streams, Contains(streams[f].text, n)
          PROVE  Contains(streams'[f].text, n)
      <4>1. streams[f].text \in Seq(Nat)
        BY CoreTypes
      <4>2. Contains(Append(streams[f].text, m), n)
        BY <1>1, <3>3, <4>1, AppendContains
      <4> QED BY <1>6, <3>3, <4>2
    <3>4. s_callbacks'[k].path = s_callbacks[k].path
      BY <1>5 DEF SameFile
    <3> QED BY <1>0, <1>6, <3>2, <3>3, <3>4 DEF Arrived
  <2> QED BY <2>2, <2>3
<1>18. TheLastWordIsWritten' /\ Ending'
  BY <1>0, <1>2, <1>4 DEF Core, TheLastWordIsWritten, Ending, Running
<1>19. ScopesAreCounted'
  BY EnterKeepsScopes
<1> QED BY <1>9, <1>10, <1>12, <1>13, <1>14, <1>15, <1>16, <1>17, <1>18, <1>19 DEF Core

(* A thread that delivers goes on to the next file. *)
LEMMA NextFile ==
  ASSUME Core, NEW t \in Threads, Deliver(t)
  PROVE  LET at == th[t].at
         IN  /\ Running /\ at.pc = "deliver" /\ s_mutex = t
             /\ at.i \in DOMAIN s_callbacks /\ at.v \in Int /\ at.file \in Nat
             /\ th' \in [Threads -> ThreadType]
             /\ th'[t].at.pc = "deliver" /\ th'[t].at.i = at.i + 1
             /\ th'[t].at.v = at.v /\ th'[t].at.file = at.file
             /\ th'[t].scopes = th[t].scopes
             /\ \A u \in Threads \ {t} : th'[u] = th[u] /\ th'[u].at.pc # "deliver"
<1> DEFINE at == th[t].at
           to == [at EXCEPT !.i = at.i + 1]
<1>1. /\ at \in AtType /\ at.v \in Int /\ at.i \in Nat /\ at.file \in Nat
      /\ th[t].scopes \in Seq(ScopeType)
  BY CoreTypes, ThreadFields
<1>2. /\ Running /\ at.pc = "deliver" /\ at.i <= Len(s_callbacks)
      /\ Becomes(t, to, th[t].scopes)
  BY DEF Deliver, At, GoTo
<1>3. at.i > 0
  BY <1>2 DEF Core, Delivering
<1>4. at.i \in DOMAIN s_callbacks
  BY <1>1, <1>2, <1>3, CoreTypes
<1>5. /\ to \in AtType /\ to.pc = at.pc /\ to.i = at.i + 1 /\ to.v = at.v /\ to.file = at.file
  <2> DEFINE n == at.i + 1
  <2>1. n \in Nat
    BY <1>1
  <2> HIDE DEF n
  <2>2. LET new == [at EXCEPT !.i = n]
        IN  new \in AtType /\ new.pc = at.pc /\ new.i = n /\ new.v = at.v /\ new.file = at.file
    BY <1>1, <2>1 DEF AtType
  <2> QED BY <2>2 DEF n
<1> HIDE DEF to
<1>6. /\ th' \in [Threads -> ThreadType] /\ th'[t].at = to /\ th'[t].scopes = th[t].scopes
      /\ \A u \in Threads \ {t} : th'[u] = th[u]
  BY <1>1, <1>2, <1>5, CoreTypes, ThreadsMove
<1>7. s_mutex = t /\ \A u \in Threads \ {t} : th[u].at.pc # "deliver"
  BY <1>2 DEF Core, Holders
<1> QED BY <1>1, <1>2, <1>4, <1>5, <1>6, <1>7

LEMMA SkipStep ==
  ASSUME Core, NEW t \in Threads, Deliver(t),
         ~ (th[t].at.v <= s_callbacks[th[t].at.i].verbosity)
  PROVE  Core'
<1> DEFINE at == th[t].at
<1>1. /\ UNCHANGED <<settings, s_callbacks, s_max_out_verbosity, s_stderr_indentation,
                     s_flush_thread, s_mutex, streams, disk, ended, levels, lost>>
  BY DEF Deliver
<1>2. /\ Running /\ at.pc = "deliver" /\ s_mutex = t
      /\ at.i \in DOMAIN s_callbacks /\ at.v \in Int /\ at.file \in Nat
      /\ th' \in [Threads -> ThreadType]
      /\ th'[t].at.pc = "deliver" /\ th'[t].at.i = at.i + 1
      /\ th'[t].at.v = at.v /\ th'[t].at.file = at.file
      /\ th'[t].scopes = th[t].scopes
      /\ \A u \in Threads \ {t} : th'[u] = th[u] /\ th'[u].at.pc # "deliver"
  BY NextFile
<1>3. Types'
  BY <1>1, <1>2 DEF Core, Types, settings
<1>4. Holders' /\ FilesAreOpen' /\ FilesAreApart' /\ AddedIsOpen' /\ TextsInOrder'
  BY <1>1, <1>2 DEF Core, Holders, FilesAreOpen, FilesAreApart, AddedIsOpen, TextsInOrder, IsFile
<1>5. MaximumIsKnown' /\ TheLastWordIsWritten' /\ Ending'
  BY <1>1, <1>2
  DEF Core, MaximumIsKnown, TheLastWordIsWritten, Ending, Running, Changing
<1>6. Delivering'
  <2>1. PICK a : a = th'[t].at
    OBVIOUS
  <2>2. ASSUME NEW k \in DOMAIN s_callbacks, HasCome(at, k) PROVE HasCome(a, k)'
    <3>1. /\ k \in Nat /\ at.i \in Nat
          /\ k < at.i + 1 <=> k < at.i \/ k = at.i
      BY <1>2, CoreTypes
    <3> QED BY <1>1, <1>2, <2>1, <2>2, <3>1 DEF HasCome
  <2>3. /\ at.file = Len(levels) /\ at.file > 0 /\ levels[Len(levels)] = at.v /\ at.i > 0
        /\ \A k \in DOMAIN s_callbacks : HasCome(at, k)
    BY <1>2 DEF Core, Delivering
  <2>4. at.i + 1 > 0
    BY <1>2, CoreTypes
  <2> QED BY <1>1, <1>2, <2>1, <2>2, <2>3, <2>4 DEF Delivering
<1>7. Everywhere'
  <2>1. SUFFICES ASSUME NEW k \in DOMAIN s_callbacks, NEW n \in Nat,
                        Wanted(s_callbacks[k], n)
                 PROVE  Arrived(s_callbacks[k].path, n) \/ OnItsWay(k, n)'
    BY <1>1 DEF Everywhere, Wanted, Arrived
  <2>2. CASE OnItsWay(k, n)
    <3>1. n = at.file /\ at.i <= k
      BY <1>2, <2>2 DEF OnItsWay
    <3>2. levels[n] = at.v
      BY <1>2, <3>1 DEF Core, Delivering
    <3>3. k # at.i
      BY <2>1, <3>2 DEF Wanted
    <3>4. at.i + 1 <= k
      BY <1>2, <3>1, <3>3, CoreTypes
    <3> QED BY <1>2, <3>1, <3>4 DEF OnItsWay
  <2> QED BY <2>1, <2>2 DEF Core, Everywhere
<1>8. ScopesAreCounted'
  <2>1. \A u \in Threads : th'[u].scopes = th[u].scopes
    BY <1>2
  <2> QED BY <1>1, <2>1, SameScopes DEF Core, ScopesAreCounted, IndentedByOpenScopes
<1> QED BY <1>3, <1>4, <1>5, <1>6, <1>7, <1>8 DEF Core

(***************************************************************************)
(* What taking a message does to the files and the streams: file i has it  *)
(* at its end or has no stream, and the others are as far as they were.    *)
(***************************************************************************)
Taken(i, c, m, n, d) ==
  /\ s_callbacks' \in Seq(FileType) /\ DOMAIN s_callbacks' = DOMAIN s_callbacks
  /\ SameFile(c, d) /\ d.indentation = c.indentation
  /\ \A k \in DOMAIN s_callbacks \ {i} : s_callbacks'[k] = s_callbacks[k]
  /\ streams' \in Seq(StreamType)
  /\ \A f \in DOMAIN streams :
       /\ f \in DOMAIN streams' /\ streams'[f].path = streams[f].path
       /\ f # c.fp => streams'[f].open = streams[f].open
       /\ f # d.fp => streams'[f].text \in {streams[f].text, Append(streams[f].text, 0)}
  /\ \/ /\ d.fp = 0 /\ Len(streams') = n /\ lost' = lost \cup {<<c.path, m>>}
     \/ /\ d.fp = c.fp /\ c.fp # 0 /\ Len(streams') = n /\ lost' = lost
        /\ streams'[c.fp].open = streams[c.fp].open
        /\ streams'[c.fp].text = Append(streams[c.fp].text, m)
     \/ /\ d.fp = n + 1 /\ Len(streams') = n + 1 /\ lost' = lost
        /\ streams'[n + 1].open /\ streams'[n + 1].path = c.path
        /\ streams'[n + 1].text = Append(<<>>, m)
  /\ misuse' = misuse \/ (~ Buffered /\ misuse' = misuse \cup {"file_flush"})

LEMMA TakenBy ==
  ASSUME Core, NEW t \in Threads, Deliver(t), NEW i, i = th[t].at.i,
         th[t].at.v <= s_callbacks[i].verbosity,
         NEW c, c = s_callbacks[i], NEW m, m = th[t].at.file, NEW n, n = Len(streams),
         NEW d, d = s_callbacks'[i]
  PROVE  Taken(i, c, m, n, d)
<1>1. /\ i \in DOMAIN s_callbacks /\ c \in FileType /\ s_callbacks \in Seq(FileType)
      /\ n \in Nat /\ m = Sent(t)
  BY NextFile, CoreTypes DEF Sent
<1>2. PICK checks \in BOOLEAN, made \in BOOLEAN, opens \in BOOLEAN :
        Take(t, i, file_log(t, i, checks, made, opens))
  BY DEF Deliver
<1>3. PICK r : r = file_log(t, i, checks, made, opens)
  OBVIOUS
<1>4. /\ SameFile(c, r.c) /\ r.c.indentation = c.indentation
      /\ r.streams \in Seq(StreamType)
      /\ \A f \in DOMAIN streams :
           /\ f \in DOMAIN r.streams /\ r.streams[f].path = streams[f].path
           /\ f # c.fp => r.streams[f].open = streams[f].open
           /\ f # r.c.fp => r.streams[f].text \in
                             {streams[f].text, Append(streams[f].text, 0)}
      /\ \/ /\ r.c.fp = 0 /\ Len(r.streams) = n
         \/ /\ r.c.fp = c.fp /\ c.fp # 0 /\ Len(r.streams) = n
            /\ r.streams[c.fp].open = streams[c.fp].open
            /\ r.streams[c.fp].text = Append(streams[c.fp].text, m)
         \/ /\ r.c.fp = n + 1 /\ Len(r.streams) = n + 1
            /\ r.streams[n + 1].open /\ r.streams[n + 1].path = c.path
            /\ r.streams[n + 1].text = Append(<<>>, m)
      /\ r.misuse = misuse \/ (~ Buffered /\ r.misuse = misuse \cup {"file_flush"})
  <2>1. Types /\ FilesAreOpen
    BY DEF Core
  <2>2. Takes(c, m, r)
    BY <1>1, <1>3, <2>1, Logged
  <2> QED BY <2>2 DEF Takes
<1>5. /\ s_callbacks' = [s_callbacks EXCEPT ![i] = r.c]
      /\ streams' = r.streams \/ streams' = Flushed(r.streams, {r.c.fp})
      /\ misuse' = r.misuse
      /\ lost' = IF r.c.fp = 0 THEN lost \cup {<<r.c.path, m>>} ELSE lost
  BY <1>1, <1>2, <1>3 DEF Take
<1>6. SameTexts(r.streams, streams')
  <2>1. SameTexts(r.streams, r.streams)
    BY <1>4 DEF SameTexts
  <2>2. SameTexts(r.streams, Flushed(r.streams, {r.c.fp}))
    BY <1>4, FlushedTexts
  <2> QED BY <1>5, <2>1, <2>2
<1>7. /\ r.c \in FileType /\ d = r.c
      /\ s_callbacks' \in Seq(FileType) /\ DOMAIN s_callbacks' = DOMAIN s_callbacks
      /\ \A k \in DOMAIN s_callbacks \ {i} : s_callbacks'[k] = s_callbacks[k]
  <2>1. r.c \in FileType
    BY <1>4 DEF SameFile
  <2> QED BY <1>1, <1>5, <2>1
<1>8. /\ streams' \in Seq(StreamType) /\ Len(streams') = Len(r.streams)
      /\ DOMAIN streams' = DOMAIN r.streams
      /\ \A f \in DOMAIN r.streams : /\ streams'[f].path = r.streams[f].path
                                    /\ streams'[f].open = r.streams[f].open
                                    /\ streams'[f].text = r.streams[f].text
  <2>1. streams' \in Seq(StreamType) /\ Len(streams') = Len(r.streams)
    BY <1>6 DEF SameTexts
  <2>2. DOMAIN streams' = DOMAIN r.streams
    <3>1. PICK ss : ss = r.streams
      OBVIOUS
    <3>2. ss \in Seq(StreamType) /\ Len(streams') = Len(ss)
      BY <1>4, <2>1, <3>1
    <3> QED BY <2>1, <3>1, <3>2
  <2> QED BY <1>6, <2>1, <2>2 DEF SameTexts
<1>9. \A f \in DOMAIN streams :
        /\ f \in DOMAIN streams' /\ streams'[f].path = streams[f].path
        /\ f # c.fp => streams'[f].open = streams[f].open
        /\ f # d.fp => streams'[f].text \in {streams[f].text, Append(streams[f].text, 0)}
  BY <1>4, <1>7, <1>8
<1>10. \/ /\ d.fp = 0 /\ Len(streams') = n /\ lost' = lost \cup {<<c.path, m>>}
       \/ /\ d.fp = c.fp /\ c.fp # 0 /\ Len(streams') = n /\ lost' = lost
          /\ streams'[c.fp].open = streams[c.fp].open
          /\ streams'[c.fp].text = Append(streams[c.fp].text, m)
       \/ /\ d.fp = n + 1 /\ Len(streams') = n + 1 /\ lost' = lost
          /\ streams'[n + 1].open /\ streams'[n + 1].path = c.path
          /\ streams'[n + 1].text = Append(<<>>, m)
  <2>1. CASE r.c.fp = 0 /\ Len(r.streams) = n
    BY <1>4, <1>5, <1>7, <1>8, <2>1 DEF SameFile
  <2>2. CASE /\ r.c.fp = c.fp /\ c.fp # 0 /\ Len(r.streams) = n
             /\ r.streams[c.fp].open = streams[c.fp].open
             /\ r.streams[c.fp].text = Append(streams[c.fp].text, m)
    <3>1. c.fp \in DOMAIN r.streams
      <4>1. c.fp \in 2 .. Len(streams) /\ DOMAIN streams = 1 .. Len(streams)
        BY <1>1, <2>2, CoreTypes
      <4>2. c.fp \in DOMAIN streams
        BY <1>1, <4>1
      <4> QED BY <1>4, <4>2
    <3> QED BY <1>5, <1>7, <1>8, <2>2, <3>1
  <2>3. CASE /\ r.c.fp = n + 1 /\ Len(r.streams) = n + 1
             /\ r.streams[n + 1].open /\ r.streams[n + 1].path = c.path
             /\ r.streams[n + 1].text = Append(<<>>, m)
    <3>1. n + 1 \in DOMAIN r.streams /\ n + 1 # 0
      <4>1. PICK ss : ss = r.streams
        OBVIOUS
      <4>2. ss \in Seq(StreamType) /\ Len(ss) = n + 1 /\ n \in Nat
        BY <1>1, <1>4, <2>3, <4>1
      <4>3. n + 1 \in DOMAIN ss /\ n + 1 # 0
        BY <4>2
      <4> QED BY <4>1, <4>3
    <3> QED BY <1>5, <1>7, <1>8, <2>3, <3>1
  <2> QED BY <1>4, <2>1, <2>2, <2>3
<1> QED BY <1>4, <1>5, <1>7, <1>8, <1>9, <1>10 DEF Taken

LEMMA TakeStep ==
  ASSUME Core, NEW t \in Threads, Deliver(t),
         th[t].at.v <= s_callbacks[th[t].at.i].verbosity
  PROVE  Core'
<1> DEFINE at == th[t].at
<1>0. UNCHANGED <<settings, s_max_out_verbosity, s_stderr_indentation, s_flush_thread,
                  s_mutex, disk, ended, levels>>
  BY DEF Deliver
<1>1. /\ Running /\ at.pc = "deliver" /\ s_mutex = t
      /\ at.i \in DOMAIN s_callbacks /\ at.v \in Int /\ at.file \in Nat
      /\ th' \in [Threads -> ThreadType]
      /\ th'[t].at.pc = "deliver" /\ th'[t].at.i = at.i + 1
      /\ th'[t].at.v = at.v /\ th'[t].at.file = at.file
      /\ th'[t].scopes = th[t].scopes
      /\ \A u \in Threads \ {t} : th'[u] = th[u] /\ th'[u].at.pc # "deliver"
  BY NextFile
<1>2. PICK i, c, m, n, d : /\ i = at.i /\ c = s_callbacks[i] /\ m = at.file
                           /\ n = Len(streams) /\ d = s_callbacks'[i]
  OBVIOUS
<1>3. /\ s_callbacks' \in Seq(FileType) /\ DOMAIN s_callbacks' = DOMAIN s_callbacks
      /\ SameFile(c, d) /\ d.indentation = c.indentation
      /\ \A k \in DOMAIN s_callbacks \ {i} : s_callbacks'[k] = s_callbacks[k]
      /\ streams' \in Seq(StreamType)
      /\ \A f \in DOMAIN streams :
           /\ f \in DOMAIN streams' /\ streams'[f].path = streams[f].path
           /\ f # c.fp => streams'[f].open = streams[f].open
           /\ f # d.fp => streams'[f].text \in {streams[f].text, Append(streams[f].text, 0)}
      /\ \/ /\ d.fp = 0 /\ Len(streams') = n /\ lost' = lost \cup {<<c.path, m>>}
         \/ /\ d.fp = c.fp /\ c.fp # 0 /\ Len(streams') = n /\ lost' = lost
            /\ streams'[c.fp].open = streams[c.fp].open
            /\ streams'[c.fp].text = Append(streams[c.fp].text, m)
         \/ /\ d.fp = n + 1 /\ Len(streams') = n + 1 /\ lost' = lost
            /\ streams'[n + 1].open /\ streams'[n + 1].path = c.path
            /\ streams'[n + 1].text = Append(<<>>, m)
  <2>1. Taken(i, c, m, n, d)
    BY <1>2, TakenBy
  <2> QED BY <2>1 DEF Taken
<1>4. /\ m = Len(levels) /\ m \in Nat /\ m > 0 /\ levels[m] = at.v /\ i \in Nat /\ i > 0
      /\ \A k \in DOMAIN s_callbacks : HasCome(at, k)
  BY <1>1, <1>2, CoreTypes DEF Core, Delivering
<1>5. /\ n \in Nat /\ n >= 1 /\ DOMAIN streams = 1 .. n /\ c \in FileType /\ c.fp \in Nat
      /\ i \in DOMAIN s_callbacks
      /\ \A k \in DOMAIN s_callbacks :
           s_callbacks[k].fp # 0 => s_callbacks[k].fp \in 2 .. n
      /\ \A f \in DOMAIN streams : streams[f].text \in Seq(Nat)
  BY <1>1, <1>2, CoreTypes, FileFields
<1>6. /\ DOMAIN streams' = 1 .. Len(streams') /\ Len(streams') \in Nat
      /\ Len(streams') = n \/ Len(streams') = n + 1
      /\ Len(streams') >= 1 /\ \A f \in 2 .. n : f \in 2 .. Len(streams')
  <2>1. PICK k : k = Len(streams')
    OBVIOUS
  <2>2. k \in Nat /\ (k = n \/ k = n + 1) /\ DOMAIN streams' = 1 .. k
    BY <1>3, <2>1
  <2>3. k >= 1 /\ \A f \in 2 .. n : f \in 2 .. k
    BY <1>5, <2>2
  <2> QED BY <2>1, <2>2, <2>3
<1>7. \A f \in DOMAIN streams : f = d.fp =>
        /\ d.fp = c.fp /\ c.fp # 0 /\ Len(streams') = n
        /\ streams'[c.fp].open = streams[c.fp].open
        /\ streams'[c.fp].text = Append(streams[c.fp].text, m)
  BY <1>3, <1>5
<1>8. ASSUME NEW f \in DOMAIN streams, NEW x \in Nat, Contains(streams[f].text, x)
      PROVE  Contains(streams'[f].text, x)
  <2>1. streams[f].text \in Seq(Nat)
    BY <1>5
  <2>2. Contains(Append(streams[f].text, 0), x) /\ Contains(Append(streams[f].text, m), x)
    BY <1>4, <1>8, <2>1, AppendContains
  <2>3. CASE f = d.fp
    BY <1>7, <2>2, <2>3
  <2>4. CASE f # d.fp
    BY <1>3, <1>8, <2>2, <2>4
  <2> QED BY <2>3, <2>4
<1>9. d.fp # 0 => /\ d.fp \in DOMAIN streams' /\ d.fp \in 2 .. Len(streams')
                  /\ streams'[d.fp].path = c.path /\ streams'[d.fp].open
                  /\ Contains(streams'[d.fp].text, m)
  <2>1. c.fp # 0 => c.fp \in 2 .. n /\ streams[c.fp].path = c.path /\ streams[c.fp].open
    BY <1>2, <1>5 DEF Core, FilesAreOpen, IsFile
  <2>2. CASE d.fp = c.fp /\ c.fp # 0
    <3>1. c.fp \in DOMAIN streams
      BY <1>5, <2>1, <2>2
    <3>2. streams[c.fp].text \in Seq(Nat)
      BY <1>5, <3>1
    <3>3. Contains(Append(streams[c.fp].text, m), m)
      BY <1>4, <3>2, AppendContains
    <3>4. /\ streams'[c.fp].text = Append(streams[c.fp].text, m) /\ Len(streams') = n
          /\ streams'[c.fp].open = streams[c.fp].open
          /\ streams'[c.fp].path = streams[c.fp].path /\ c.fp \in DOMAIN streams'
      BY <1>3, <1>7, <2>2, <3>1
    <3> QED BY <2>1, <2>2, <3>3, <3>4
  <2>3. CASE d.fp = n + 1 /\ d.fp # c.fp
    <3>1. Contains(Append(<<>>, m), m)
      <4>1. PICK e : e = <<>>
        OBVIOUS
      <4>2. e \in Seq(Nat)
        BY <4>1
      <4> QED BY <1>4, <4>1, <4>2, AppendContains
    <3>2. /\ Len(streams') = n + 1 /\ n + 1 # c.fp /\ n + 1 # 0
          /\ n + 1 \in 1 .. n + 1 /\ n + 1 \in 2 .. n + 1
      BY <1>3, <1>5, <2>3
    <3>3. /\ streams'[n + 1].open /\ streams'[n + 1].path = c.path
          /\ streams'[n + 1].text = Append(<<>>, m)
      BY <1>3, <2>3, <3>2
    <3> QED BY <1>6, <2>3, <3>1, <3>2, <3>3
  <2> QED BY <1>3, <2>2, <2>3
<1>10. \A k \in DOMAIN s_callbacks \ {i} : s_callbacks[k].fp # 0 =>
         /\ s_callbacks[k].fp \in DOMAIN streams /\ s_callbacks[k].fp \in 2 .. n
         /\ s_callbacks[k].fp # c.fp /\ s_callbacks[k].fp # d.fp
  <2>1. SUFFICES ASSUME NEW k \in DOMAIN s_callbacks \ {i}, s_callbacks[k].fp # 0
                 PROVE  /\ s_callbacks[k].fp \in 2 .. n
                        /\ s_callbacks[k].fp # c.fp /\ s_callbacks[k].fp # d.fp
    BY <1>5
  <2>2. s_callbacks[k].fp \in 2 .. n
    BY <1>5, <2>1
  <2>3. s_callbacks[k].fp # c.fp
    BY <1>2, <1>5, <2>1 DEF Core, FilesAreApart
  <2> QED BY <1>3, <1>5, <2>2, <2>3
<1>11. Types'
  <2>1. Types
    BY DEF Core
  <2> QED BY <1>0, <1>1, <1>3, <1>6, <2>1 DEF Types, settings
<1>12. Holders' /\ MaximumIsKnown' /\ TheLastWordIsWritten' /\ Ending'
  <2>1. \A k \in DOMAIN s_callbacks : s_callbacks'[k].verbosity = s_callbacks[k].verbosity
    BY <1>2, <1>3 DEF SameFile
  <2>2. MaximumIsKnown'
    BY <1>0, <1>1, <1>3, <2>1 DEF Core, MaximumIsKnown, Running, Changing
  <2> QED BY <1>0, <1>1, <2>2
      DEF Core, Holders, TheLastWordIsWritten, Ending, Running
<1>13. FilesAreOpen'
  <2>1. SUFFICES ASSUME NEW k \in DOMAIN s_callbacks, s_callbacks'[k].fp # 0
                 PROVE  LET f == s_callbacks'[k].fp
                        IN  /\ f \in 2 .. Len(streams') /\ streams'[f].open
                            /\ streams'[f].path = s_callbacks'[k].path
    BY <1>3 DEF FilesAreOpen, IsFile
  <2>2. CASE k = i
    BY <1>2, <1>3, <1>9, <2>1, <2>2 DEF SameFile
  <2>3. CASE k # i
    <3> DEFINE f == s_callbacks[k].fp
    <3>1. s_callbacks'[k] = s_callbacks[k] /\ f # 0
      BY <1>3, <2>1, <2>3
    <3>2. f \in DOMAIN streams /\ f \in 2 .. n /\ f # c.fp
      BY <1>10, <2>3, <3>1
    <3>3. streams[f].open /\ streams[f].path = s_callbacks[k].path
      BY <3>1 DEF Core, FilesAreOpen, IsFile
    <3>4. streams'[f].open /\ streams'[f].path = s_callbacks[k].path
      BY <1>3, <3>2, <3>3
    <3>5. f \in 2 .. Len(streams')
      BY <1>5, <1>6, <3>2
    <3> QED BY <3>1, <3>4, <3>5
  <2> QED BY <2>2, <2>3
<1>14. FilesAreApart'
  <2>1. \A k \in DOMAIN s_callbacks \ {i} : s_callbacks'[k].fp = d.fp => d.fp = 0
    BY <1>3, <1>10
  <2>2. /\ DOMAIN s_callbacks' = DOMAIN s_callbacks /\ s_callbacks'[i] = d
        /\ \A k \in DOMAIN s_callbacks \ {i} : s_callbacks'[k] = s_callbacks[k]
    BY <1>2, <1>3
  <2>3. FilesAreApart
    BY DEF Core
  <2> QED BY <2>1, <2>2, <2>3 DEF FilesAreApart
<1>15. AddedIsOpen'
  <2>1. SUFFICES ASSUME NEW u \in Threads, th'[u].at.pc = "add"
                 PROVE  /\ u = Main /\ th'[u].at.path \in Paths /\ th'[u].at.level \in Levels
                        /\ th'[u].at.file \in 2 .. Len(streams')
                        /\ streams'[th'[u].at.file].open
                        /\ streams'[th'[u].at.file].path = th'[u].at.path
                        /\ \A k \in DOMAIN s_callbacks' :
                             s_callbacks'[k].fp # th'[u].at.file
    BY DEF AddedIsOpen, IsFile
  <2>2. PICK f : f = th[u].at.file
    OBVIOUS
  <2>3. th'[u] = th[u]
    BY <1>1, <2>1
  <2>4. /\ u = Main /\ th[u].at.path \in Paths /\ th[u].at.level \in Levels
        /\ f \in 2 .. n /\ streams[f].open /\ streams[f].path = th[u].at.path
        /\ \A k \in DOMAIN s_callbacks : s_callbacks[k].fp # f
    BY <1>2, <2>1, <2>2, <2>3 DEF Core, AddedIsOpen, IsFile
  <2>5. f \in DOMAIN streams /\ f # c.fp /\ f # n + 1 /\ f # 0
    BY <1>2, <1>5, <2>4
  <2>6. \A k \in DOMAIN s_callbacks' : s_callbacks'[k].fp # f
    <3>1. d.fp # f
      BY <1>3, <2>5
    <3> QED BY <1>2, <1>3, <2>4, <3>1
  <2>7. streams'[f].open /\ streams'[f].path = streams[f].path /\ f \in 2 .. Len(streams')
    BY <1>3, <1>5, <1>6, <2>4, <2>5
  <2> QED BY <2>2, <2>3, <2>4, <2>6, <2>7
<1>16. TextsInOrder'
  <2>1. SUFFICES ASSUME NEW f \in DOMAIN streams'
                 PROVE  InOrder(streams'[f].text) /\ Below(streams'[f].text, m)
    BY <1>0, <1>4 DEF TextsInOrder
  <2>2. CASE f \in DOMAIN streams /\ f # d.fp
    <3>1. /\ InOrder(streams[f].text) /\ Below(streams[f].text, m)
          /\ streams[f].text \in Seq(Nat)
      BY <1>4, <1>5, <2>2 DEF Core, TextsInOrder
    <3>2. InOrder(Append(streams[f].text, 0)) /\ Below(Append(streams[f].text, 0), m)
      BY <1>4, <3>1, AppendNote
    <3> QED BY <1>3, <2>2, <3>1, <3>2
  <2>3. CASE f \in DOMAIN streams /\ f = d.fp
    <3>1. InOrder(streams[f].text) /\ streams[f].text \in Seq(Nat)
      BY <1>5, <2>3 DEF Core, TextsInOrder
    <3>2. Below(streams[f].text, m - 1)
      <4>1. HasCome(at, i) /\ i = at.i /\ m = at.file /\ c = s_callbacks[i]
        BY <1>2, <1>4, <1>5
      <4>2. ~ (i < i) /\ f = c.fp /\ c.fp # 0
        BY <1>4, <1>7, <2>3
      <4> HIDE DEF at
      <4> QED BY <4>1, <4>2 DEF HasCome
    <3>3. InOrder(Append(streams[f].text, m)) /\ Below(Append(streams[f].text, m), m)
      BY <1>4, <3>1, <3>2, AppendMessage
    <3> QED BY <1>7, <2>3, <3>3
  <2>4. CASE f \notin DOMAIN streams
    <3>1. f = n + 1 /\ Len(streams') = n + 1
      <4>1. PICK k : k = Len(streams')
        OBVIOUS
      <4>2. k \in Nat /\ (k = n \/ k = n + 1) /\ f \in 1 .. k
        BY <1>6, <2>1, <4>1
      <4>3. f \notin 1 .. n /\ n \in Nat
        BY <1>5, <2>4
      <4> QED BY <4>1, <4>2, <4>3
    <3>2. streams'[f].text = Append(<<>>, m)
      BY <1>3, <1>5, <3>1
    <3>3. InOrder(<<>>) /\ Below(<<>>, m - 1) /\ <<>> \in Seq(Nat)
      BY DEF InOrder, Below
    <3>4. InOrder(Append(<<>>, m)) /\ Below(Append(<<>>, m), m)
      BY <1>4, <3>3, AppendMessage
    <3> QED BY <3>2, <3>4
  <2> QED BY <2>2, <2>3, <2>4
<1>17. Delivering'
  <2>1. PICK a, b : a = th'[t].at /\ b = at
    OBVIOUS
  <2>2. a.i = i + 1 /\ a.v = b.v /\ a.file = m /\ b.i = i /\ b.file = m
    BY <1>1, <1>2, <2>1
  <2>3. ASSUME NEW k \in DOMAIN s_callbacks PROVE HasCome(a, k)'
    <3>1. /\ k \in Nat /\ (k < i + 1 <=> k < i \/ k = i)
      BY <1>4, <1>5, CoreTypes
    <3>2. CASE k = i
      BY <1>2, <1>9, <2>2, <3>1, <3>2 DEF HasCome
    <3>3. CASE k # i
      <4> DEFINE f == s_callbacks[k].fp
      <4>1. s_callbacks'[k] = s_callbacks[k]
        BY <1>3, <3>3
      <4>2. CASE f = 0
        BY <4>1, <4>2 DEF HasCome
      <4>3. CASE f # 0
        <5>1. f \in DOMAIN streams /\ f # d.fp /\ HasCome(b, k)
          BY <1>4, <1>10, <2>1, <3>3, <4>3
        <5>2. Contains(streams[f].text, m) => Contains(streams'[f].text, m)
          BY <1>4, <1>8, <5>1
        <5>3. Below(streams[f].text, m - 1) => Below(streams'[f].text, m - 1)
          <6>1. HAVE Below(streams[f].text, m - 1)
          <6>2. InOrder(streams[f].text) /\ streams[f].text \in Seq(Nat) /\ m - 1 \in Nat
            BY <1>4, <1>5, <5>1 DEF Core, TextsInOrder
          <6>3. Below(Append(streams[f].text, 0), m - 1)
            BY <6>1, <6>2, AppendNote
          <6> QED BY <1>3, <5>1, <6>1, <6>3
        <5> QED BY <2>2, <3>1, <3>3, <4>1, <4>3, <5>1, <5>2, <5>3 DEF HasCome
      <4> QED BY <4>2, <4>3
    <3> QED BY <3>2, <3>3
  <2>4. /\ th'[t].at = a /\ \A u \in Threads \ {t} : th'[u].at.pc # "deliver"
        /\ a.file = Len(levels') /\ a.file > 0 /\ levels'[Len(levels')] = a.v /\ a.i > 0
    BY <1>0, <1>1, <1>2, <1>4, <2>1, <2>2
  <2> QED BY <1>3, <2>3, <2>4 DEF Delivering
<1>18. Everywhere'
  <2>1. SUFFICES ASSUME NEW k \in DOMAIN s_callbacks, NEW x \in Nat,
                        Wanted(s_callbacks[k], x)'
                 PROVE  Arrived(s_callbacks[k].path, x)' \/ OnItsWay(k, x)'
    BY <1>3 DEF Everywhere
  <2>2. /\ s_callbacks'[k].path = s_callbacks[k].path
        /\ s_callbacks'[k].since = s_callbacks[k].since
        /\ s_callbacks'[k].verbosity = s_callbacks[k].verbosity
    BY <1>2, <1>3 DEF SameFile
  <2>3. Wanted(s_callbacks[k], x)
    BY <1>0, <2>1, <2>2 DEF Wanted
  <2>4. CASE Arrived(s_callbacks[k].path, x)
    <3>1. lost \subseteq lost'
      BY <1>3
    <3> QED BY <1>3, <1>8, <2>2, <2>4, <3>1 DEF Arrived
  <2>5. CASE OnItsWay(k, x)
    <3>1. x = m /\ i <= k
      BY <1>1, <1>2, <2>5 DEF OnItsWay
    <3>2. CASE k = i
      <4>1. CASE d.fp = 0
        <5>1. <<c.path, m>> \in lost'
          BY <1>3, <1>5, <4>1
        <5> QED BY <1>2, <2>2, <3>1, <3>2, <5>1 DEF Arrived
      <4>2. CASE d.fp # 0
        BY <1>2, <1>9, <2>2, <3>1, <3>2, <4>2 DEF Arrived
      <4> QED BY <4>1, <4>2
    <3>3. CASE k # i
      <4>1. i + 1 <= k
        BY <1>4, <3>1, <3>3, CoreTypes
      <4> QED BY <1>1, <1>2, <3>1, <4>1 DEF OnItsWay
    <3> QED BY <3>2, <3>3
  <2> QED BY <1>0, <2>1, <2>3, <2>4, <2>5 DEF Core, Everywhere
<1>19. ScopesAreCounted'
  <2>1. \A u \in Threads : th'[u].scopes = th[u].scopes
    BY <1>1
  <2>2. \A k \in DOMAIN s_callbacks :
          /\ s_callbacks'[k].verbosity = s_callbacks[k].verbosity
          /\ s_callbacks'[k].indentation = s_callbacks[k].indentation
    BY <1>2, <1>3 DEF SameFile
  <2> QED BY <1>0, <1>3, <2>1, <2>2, SameScopes
      DEF Core, ScopesAreCounted, IndentedByOpenScopes
<1> QED BY <1>11, <1>12, <1>13, <1>14, <1>15, <1>16, <1>17, <1>18, <1>19 DEF Core

LEMMA DeliverStep == ASSUME Core, NEW t \in Threads, Deliver(t) PROVE Core'
BY SkipStep, TakeStep

LEMMA FilesAre ==
  ASSUME Core
  PROVE  \A f \in Files(s_callbacks) :
           /\ f \in DOMAIN streams /\ f # 1 /\ f # 0
           /\ \E k \in DOMAIN s_callbacks : s_callbacks[k].fp = f
BY CoreTypes DEF Files

LEMMA FlushedAll ==
  ASSUME NEW ss \in Seq(StreamType), NEW cs, Files(cs) \subseteq DOMAIN ss
  PROVE  LET tt == FlushAll(ss, cs)
         IN  /\ SameTexts(ss, tt) /\ DOMAIN tt = DOMAIN ss
             /\ \A f \in Files(cs) : tt[f].flushed = Len(tt[f].text)
<1> DEFINE files == {1} \cup Files(cs)
           tt == Flushed(ss, files)
<1>1. /\ SameTexts(ss, tt)
      /\ \A f \in DOMAIN ss \cap files : tt[f].flushed = Len(ss[f].text)
  BY FlushedTexts
<1>2. \A f \in Files(cs) : f \in DOMAIN ss \cap files
  OBVIOUS
<1>3. tt = FlushAll(ss, cs)
  BY DEF FlushAll
<1> HIDE DEF tt, files
<1>4. tt \in Seq(StreamType) /\ Len(tt) = Len(ss)
  BY <1>1 DEF SameTexts
<1>5. DOMAIN tt = DOMAIN ss
  BY <1>4
<1> QED BY <1>1, <1>2, <1>3, <1>5 DEF SameTexts

(* A scope that begins counts for stderr and for the files it indents. *)
LEMMA BeginKeepsScopes ==
  ASSUME Core, NEW t \in Threads, NEW v \in Int, BeginScope(t, v)
  PROVE  /\ th' \in [Threads -> ThreadType] /\ th'[t].at = Idle
         /\ \A u \in Threads \ {t} : th'[u] = th[u]
         /\ s_callbacks' = Indented(v, TRUE) /\ s_stderr_indentation' \in Nat
         /\ ScopesAreCounted'
<1> DEFINE indents == v <= g_stderr_verbosity
           s == [v |-> v, indents |-> indents]
<1>1. s \in ScopeType /\ s.v = v /\ s.indents = indents
  BY DEF ScopeType
<1>2. Becomes(t, Idle, Append(th[t].scopes, s))
  BY DEF BeginScope
<1>3. s_callbacks' = Indented(v, TRUE)
  BY DEF BeginScope
<1>4. s_stderr_indentation' = IF s.indents THEN s_stderr_indentation + 1
                              ELSE s_stderr_indentation
  BY DEF BeginScope
<1> HIDE DEF s
<1>5. /\ th \in [Threads -> ThreadType] /\ th[t].scopes \in Seq(ScopeType)
      /\ s_callbacks \in Seq(FileType)
  BY CoreTypes, ThreadFields
<1>6. Append(th[t].scopes, s) \in Seq(ScopeType)
  BY <1>1, <1>5
<1>7. /\ th' \in [Threads -> ThreadType] /\ th'[t].at = Idle
      /\ th'[t].scopes = Append(th[t].scopes, s)
      /\ \A u \in Threads \ {t} : th'[u] = th[u]
  <2> DEFINE more == Append(th[t].scopes, s)
  <2>1. more \in Seq(ScopeType) /\ Becomes(t, Idle, more)
    BY <1>2, <1>6
  <2> HIDE DEF more
  <2>2. /\ th' \in [Threads -> ThreadType] /\ th'[t].at = Idle /\ th'[t].scopes = more
        /\ \A u \in Threads \ {t} : th'[u] = th[u]
    BY <1>5, <2>1, IdleIs, ThreadsMove
  <2> QED BY <2>2 DEF more
<1>8. PICK n : n = Len(th[t].scopes)
  OBVIOUS
<1>9. /\ <<t, n + 1>> \notin OpenScopes /\ OpenScopes' = OpenScopes \cup {<<t, n + 1>>}
      /\ Indenting' = Indenting \cup IF s.indents THEN {<<t, n + 1>>} ELSE {}
      /\ \A w : (Covering(w))' = Covering(w) \cup IF s.v <= w THEN {<<t, n + 1>>} ELSE {}
  BY <1>1, <1>5, <1>7, <1>8, MoreScopes
<1>10. IsFiniteSet(OpenScopes')
  BY <1>9, FS_AddElement DEF Core, ScopesAreCounted
<1>11. /\ IsFiniteSet(Indenting) /\ Cardinality(Indenting) \in Nat
       /\ s_stderr_indentation = Cardinality(Indenting)
       /\ \A w : IsFiniteSet(Covering(w)) /\ Cardinality(Covering(w)) \in Nat
  BY CountedTypes DEF Core
<1>12. s_stderr_indentation' = Cardinality(Indenting')
  <2>1. <<t, n + 1>> \notin Indenting
    BY <1>9 DEF Indenting
  <2>2. Cardinality(Indenting \cup {<<t, n + 1>>}) = Cardinality(Indenting) + 1
    BY <1>11, <2>1, FS_AddElement
  <2>3. CASE s.indents
    BY <1>4, <1>9, <1>11, <2>2, <2>3
  <2>4. CASE ~ s.indents
    <3>1. Indenting' = Indenting
      BY <1>9, <2>4
    <3> QED BY <1>4, <1>11, <2>4, <3>1
  <2> QED BY <2>3, <2>4
<1>13. ASSUME NEW i \in DOMAIN s_callbacks'
       PROVE  (s_callbacks[i].indentation <= Cardinality(Covering(s_callbacks[i].verbosity)))'
  <2> DEFINE d == s_callbacks[i].indentation
  <2>0. PICK w : w = s_callbacks[i].verbosity
    OBVIOUS
  <2>1. /\ i \in DOMAIN s_callbacks
        /\ s_callbacks'[i].verbosity = w
        /\ s_callbacks'[i].indentation = IF ~ (v <= w) THEN d ELSE d + 1
    BY <1>3, <1>5, <1>13, <2>0, IndentedFiles DEF SameFile
  <2>2. d \in Nat /\ d <= Cardinality(Covering(w)) /\ w \in Int
    BY <1>5, <2>0, <2>1, FileFields DEF Core, ScopesAreCounted, IndentedByOpenScopes
  <2>3. <<t, n + 1>> \notin Covering(w)
    BY <1>9 DEF Covering
  <2>4. Cardinality(Covering(w) \cup {<<t, n + 1>>}) = Cardinality(Covering(w)) + 1
    BY <1>11, <2>3, FS_AddElement
  <2> HIDE DEF d
  <2>5. CASE v <= w
    <3>1. (Covering(w))' = Covering(w) \cup {<<t, n + 1>>}
      BY <1>1, <1>9, <2>5
    <3> QED BY <1>11, <2>1, <2>2, <2>4, <2>5, <3>1
  <2>6. CASE ~ (v <= w)
    <3>1. (Covering(w))' = Covering(w)
      BY <1>1, <1>9, <2>6
    <3> QED BY <2>1, <2>2, <2>6, <3>1
  <2> QED BY <2>5, <2>6
<1>14. s_stderr_indentation' \in Nat
  BY <1>4, <1>11
<1>15. ScopesAreCounted'
  BY <1>10, <1>12, <1>13 DEF ScopesAreCounted, IndentedByOpenScopes
<1> QED BY <1>3, <1>7, <1>14, <1>15

LEMMA FinishStep == ASSUME Core, NEW t \in Threads, Finish(t) PROVE Core'
<1> DEFINE at == th[t].at
<1>1. /\ Running /\ at.pc = "deliver" /\ at.i > Len(s_callbacks)
      /\ s_flush_thread' = IF Buffered /\ s_flush_thread = "none" THEN "polls"
                           ELSE s_flush_thread
      /\ s_mutex' = "free"
      /\ UNCHANGED <<settings, s_max_out_verbosity, disk, levels, lost>>
  BY DEF Finish, At
<1>2. /\ at \in AtType /\ at.v \in Int /\ at.i \in Nat /\ at.file \in Nat
      /\ at.next \in {"idle", "header", "remove all", "flush"}
      /\ th[t].scopes \in Seq(ScopeType)
  BY CoreTypes, ThreadFields
<1>3. /\ th' \in [Threads -> ThreadType]
      /\ th'[t].at.pc = "idle" \/ th'[t].at.pc = at.next
      /\ \A u \in Threads \ {t} : th'[u] = th[u]
      /\ s_stderr_indentation' \in Nat /\ ScopesAreCounted'
      /\ s_callbacks' \in Seq(FileType) /\ DOMAIN s_callbacks' = DOMAIN s_callbacks
      /\ \A k \in DOMAIN s_callbacks : /\ SameFile(s_callbacks[k], s_callbacks'[k])
                                      /\ s_callbacks'[k].fp = s_callbacks[k].fp
  <2>1. CASE at.op = "begin"
    <3>1. BeginScope(t, at.v)
      BY <2>1 DEF Finish
    <3>2. /\ th' \in [Threads -> ThreadType] /\ th'[t].at = Idle
          /\ \A u \in Threads \ {t} : th'[u] = th[u]
          /\ s_callbacks' = Indented(at.v, TRUE) /\ s_stderr_indentation' \in Nat
          /\ ScopesAreCounted'
      BY <1>2, <3>1, BeginKeepsScopes
    <3> QED BY <1>2, <3>2, CoreTypes, IdleIs, IndentedFiles
  <2>2. CASE at.op # "begin"
    <3> DEFINE to == IF at.next = "idle" THEN Idle ELSE [at EXCEPT !.pc = at.next]
    <3>1. Becomes(t, to, th[t].scopes) /\ UNCHANGED <<s_stderr_indentation, s_callbacks>>
      BY <2>2 DEF Finish, Goes, GoTo
    <3>2. to \in AtType /\ to.pc = at.next
      <4>1. CASE at.next = "idle"
        BY <4>1, IdleIs
      <4>2. CASE at.next # "idle"
        <5>1. PICK pc : pc = at.next
          OBVIOUS
        <5>2. pc \in {"header", "remove all", "flush"} /\ to = [at EXCEPT !.pc = pc]
          BY <1>2, <4>2, <5>1
        <5>3. pc \in {"idle", "enter", "deliver", "maximum", "header", "remove all", "flush"}
          BY <5>2
        <5> HIDE DEF to, at
        <5>4. [at EXCEPT !.pc = pc] \in AtType /\ [at EXCEPT !.pc = pc].pc = pc
          BY <1>2, <5>3, PlaceIs
        <5> QED BY <5>1, <5>2, <5>4
      <4> QED BY <4>1, <4>2
    <3> HIDE DEF to
    <3>3. /\ th' \in [Threads -> ThreadType] /\ th'[t].at = to
          /\ th'[t].scopes = th[t].scopes /\ \A u \in Threads \ {t} : th'[u] = th[u]
      BY <1>2, <3>1, <3>2, CoreTypes, ThreadsMove
    <3>4. \A u \in Threads : th'[u].scopes = th[u].scopes
      BY <3>3
    <3>5. ScopesAreCounted' /\ s_stderr_indentation' \in Nat
      BY <3>1, <3>4, SameScopes DEF Core, Types, ScopesAreCounted, IndentedByOpenScopes
    <3> QED BY <3>1, <3>2, <3>3, <3>5, CoreTypes DEF SameFile
  <2> QED BY <2>1, <2>2
<1>4. \A f \in Files(s_callbacks) :
        /\ f \in DOMAIN streams /\ f # 1 /\ f # 0
        /\ \E k \in DOMAIN s_callbacks : s_callbacks[k].fp = f
  BY FilesAre
<1>5. /\ SameTexts(streams, streams') /\ DOMAIN streams' = DOMAIN streams
      /\ \/ ended' = ""
         \/ /\ ended' = "aborted" /\ at.v = FATAL
            /\ \A f \in Files(s_callbacks) : streams'[f].flushed = Len(streams'[f].text)
  <2>1. CASE at.v = FATAL
    <3>1. streams' = FlushAll(streams, s_callbacks) /\ ended' = "aborted"
      BY <2>1 DEF Finish
    <3>2. /\ SameTexts(streams, FlushAll(streams, s_callbacks))
          /\ DOMAIN FlushAll(streams, s_callbacks) = DOMAIN streams
          /\ \A f \in Files(s_callbacks) :
               FlushAll(streams, s_callbacks)[f].flushed
                 = Len(FlushAll(streams, s_callbacks)[f].text)
      BY <1>4, CoreTypes, FlushedAll
    <3> QED BY <2>1, <3>1, <3>2
  <2>2. CASE at.v # FATAL
    <3>1. streams' = streams /\ ended' = ended
      BY <2>2 DEF Finish
    <3>2. SameTexts(streams, streams)
      BY CoreTypes DEF SameTexts
    <3> QED BY <1>1, <3>1, <3>2 DEF Running
  <2> QED BY <2>1, <2>2
<1>6. \A f \in DOMAIN streams : /\ streams'[f].path = streams[f].path
                               /\ streams'[f].open = streams[f].open
                               /\ streams'[f].text = streams[f].text
  BY <1>5 DEF SameTexts
<1>7. s_mutex = t /\ \A u \in Threads \ {t} : th[u].at.pc \notin {"deliver", "maximum"}
  BY <1>1 DEF Core, Holders
<1>8. /\ th'[t].at.pc \notin {"deliver", "maximum", "add", "check", "enter"}
      /\ \A u \in Threads : th'[u].at.pc \notin {"deliver", "maximum"}
  BY <1>2, <1>3, <1>7
<1>9. /\ at.file = Len(levels) /\ \A k \in DOMAIN s_callbacks : HasCome(at, k)
      /\ \A k \in DOMAIN s_callbacks : k < at.i /\ ~ (at.i <= k)
  <2>1. at.file = Len(levels) /\ \A k \in DOMAIN s_callbacks : HasCome(at, k)
    BY <1>1 DEF Core, Delivering
  <2>2. PICK i, n : i = at.i /\ n = Len(s_callbacks)
    OBVIOUS
  <2>3. i \in Nat /\ n \in Nat /\ i > n /\ DOMAIN s_callbacks = 1 .. n
    BY <1>1, <1>2, <2>2, CoreTypes
  <2>4. \A k \in DOMAIN s_callbacks : k < i /\ ~ (i <= k)
    BY <2>3
  <2> QED BY <2>1, <2>2, <2>4
<1>10. Types'
  <2>1. Types
    BY DEF Core
  <2>2. streams' \in Seq(StreamType) /\ Len(streams') >= 1
    BY <1>5, CoreTypes DEF SameTexts
  <2> QED BY <1>1, <1>3, <1>5, ThreadsAssumption, <2>1, <2>2 DEF Types, settings
<1>11. Holders' /\ Delivering'
  BY <1>8 DEF Holders, Delivering
<1>12. \A f, path : IsFile(f, path) => IsFile(f, path)'
  <2>0. PICK n : n = Len(streams)
    OBVIOUS
  <2>1. n \in Nat /\ n = Len(streams') /\ DOMAIN streams = 1 .. n
    BY <1>5, <2>0, CoreTypes DEF SameTexts
  <2>2. \A f \in 2 .. Len(streams) : f \in DOMAIN streams /\ f \in 2 .. Len(streams')
    BY <2>0, <2>1
  <2> QED BY <1>6, <2>2 DEF IsFile
<1>13. FilesAreOpen' /\ FilesAreApart'
  BY <1>3, <1>12 DEF Core, FilesAreOpen, FilesAreApart, SameFile
<1>14. AddedIsOpen'
  BY <1>3, <1>8, <1>12 DEF Core, AddedIsOpen
<1>15. MaximumIsKnown'
  BY <1>1, <1>3, <1>7 DEF Core, MaximumIsKnown, Running, Changing, SameFile
<1>16. TextsInOrder'
  BY <1>1, <1>5, <1>6 DEF Core, TextsInOrder
<1>17. Everywhere'
  <2>1. SUFFICES ASSUME NEW k \in DOMAIN s_callbacks, NEW x \in Nat,
                        Wanted(s_callbacks[k], x)'
                 PROVE  Arrived(s_callbacks[k].path, x)'
    BY <1>3 DEF Everywhere
  <2>2. Wanted(s_callbacks[k], x) /\ s_callbacks'[k].path = s_callbacks[k].path
    BY <1>1, <1>3, <2>1 DEF Wanted, SameFile
  <2>3. ~ OnItsWay(k, x)
    BY <1>7, <1>9 DEF OnItsWay
  <2>4. Arrived(s_callbacks[k].path, x)
    BY <1>1, <2>2, <2>3 DEF Core, Everywhere, Running
  <2> QED BY <1>1, <1>5, <1>6, <2>2, <2>4 DEF Arrived
<1>18. TheLastWordIsWritten'
  <2>1. SUFFICES ASSUME ended' # "", NEW f \in Files(s_callbacks')
                 PROVE  /\ Contains(streams'[f].text, Len(levels'))
                        /\ streams'[f].flushed = Len(streams'[f].text)
    BY DEF TheLastWordIsWritten
  <2>2. f \in Files(s_callbacks)
    BY <1>3 DEF Files
  <2>3. at.v = FATAL /\ streams'[f].flushed = Len(streams'[f].text)
    BY <1>5, <2>1, <2>2
  <2>4. PICK k \in DOMAIN s_callbacks : s_callbacks[k].fp = f
    BY <1>4, <2>2
  <2>5. s_callbacks[k].verbosity >= FATAL /\ f # 0
    BY <1>4, <2>2, <2>4, CoreTypes, FileFields
  <2>6. at.v <= s_callbacks[k].verbosity
    BY <2>3, <2>5, CoreTypes DEF FATAL
  <2>7. HasCome(at, k) /\ k < at.i
    BY <1>9, <2>4
  <2>8. Contains(streams[f].text, at.file)
    <3> HIDE DEF at
    <3> QED BY <2>4, <2>5, <2>6, <2>7 DEF HasCome
  <2> QED BY <1>1, <1>4, <1>6, <1>9, <2>2, <2>3, <2>8
<1>19. Ending'
  BY <1>3, <1>8 DEF Core, Ending
<1> QED BY <1>3, <1>10, <1>11, <1>13, <1>14, <1>15, <1>16, <1>17, <1>18, <1>19 DEF Core

-----------------------------------------------------------------------------
(***************************************************************************)
(* The steps that change the files.                                        *)
(***************************************************************************)
LEMMA LeastElement ==
  ASSUME NEW S \in SUBSET Nat, S # {}
  PROVE  \E x \in S : \A y \in S : x <= y
<1> DEFINE less == {pair \in Nat \X Nat : pair[1] < pair[2]}
<1>1. PICK x \in S : \A y \in S : ~ (<<y, x>> \in less)
  <2>1. IsWellFoundedOn(less, Nat)
    BY NatLessThanWellFounded DEF OpToRel
  <2> HIDE DEF less
  <2> QED BY <2>1, WFMin
<1>2. ASSUME NEW y \in S PROVE x <= y
  <2>1. x \in Nat /\ y \in Nat
    OBVIOUS
  <2>2. <<y, x>> \in less <=> y < x
    BY <2>1
  <2> QED BY <1>1, <2>1, <2>2
<1> QED BY <1>2

(* on_callback_change computes an upper bound of the verbosities. *)
LEMMA MaximumIsGreatest ==
  ASSUME NEW cs \in Seq(FileType)
  PROVE  /\ MaximumOf(cs) \in Int
         /\ \A i \in DOMAIN cs : cs[i].verbosity <= MaximumOf(cs)
<1> DEFINE n == Len(cs)
           V(k) == {OFF} \cup {cs[i].verbosity : i \in 1 .. k}
           HasMax(k) == \E x \in V(k) : \A y \in V(k) : x >= y
           Bad == {k \in 0 .. n : ~ HasMax(k)}
<1>1. n \in Nat /\ DOMAIN cs = 1 .. n /\ \A i \in 1 .. n : cs[i].verbosity \in Int
  <2>1. \A i \in DOMAIN cs : cs[i] \in FileType
    OBVIOUS
  <2> QED BY <2>1, FileFields
<1>2. \A k \in 0 .. n : V(k) \subseteq Int
  BY <1>1 DEF OFF
<1>3. HasMax(0)
  BY DEF OFF
<1>4. ASSUME NEW k \in 1 .. n, HasMax(k - 1) PROVE HasMax(k)
  <2>1. PICK x \in V(k - 1) : \A y \in V(k - 1) : x >= y
    BY <1>4
  <2> DEFINE v == cs[k].verbosity
  <2>2. V(k) = V(k - 1) \cup {v}
    BY <1>1
  <2>3. x \in Int /\ v \in Int /\ V(k - 1) \subseteq Int
    <3>1. k - 1 \in 0 .. n
      BY <1>1
    <3> QED BY <1>1, <1>2, <3>1
  <2> HIDE DEF V, v
  <2>4. CASE x >= v
    <3>1. x \in V(k) /\ \A y \in V(k) : x >= y
      BY <2>1, <2>2, <2>4
    <3> QED BY <3>1
  <2>5. CASE ~ (x >= v)
    <3>1. v \in V(k) /\ \A y \in V(k) : v >= y
      BY <2>1, <2>2, <2>3, <2>5
    <3> QED BY <3>1
  <2> QED BY <2>4, <2>5
<1> HIDE DEF HasMax
<1>5. Bad = {}
  <2>1. SUFFICES ASSUME Bad # {} PROVE FALSE
    OBVIOUS
  <2>2. Bad \in SUBSET Nat
    BY <1>1
  <2>3. PICK k \in Bad : \A y \in Bad : k <= y
    <3> HIDE DEF Bad
    <3> QED BY <2>1, <2>2, LeastElement
  <2>4. k \in 1 .. n /\ k - 1 \in 0 .. n /\ ~ (k <= k - 1)
    <3>1. k \in 0 .. n /\ k # 0
      BY <1>3, <2>3
    <3> QED BY <1>1, <3>1
  <2>5. HasMax(k - 1)
    BY <2>3, <2>4
  <2> QED BY <1>4, <2>3, <2>4, <2>5
<1>6. HasMax(n)
  BY <1>1, <1>5
<1>7. MaximumOf(cs) = Max(V(n))
  BY <1>1 DEF MaximumOf
<1>8. Max(V(n)) \in V(n) /\ \A y \in V(n) : Max(V(n)) >= y
  <2> HIDE DEF V
  <2> QED BY <1>6 DEF HasMax, Max
<1>9. \A i \in 1 .. n : cs[i].verbosity \in V(n)
  OBVIOUS
<1>10. V(n) \subseteq Int
  BY <1>1, <1>2
<1> HIDE DEF V
<1> QED BY <1>1, <1>7, <1>8, <1>9, <1>10

(* A file that could be opened is added without the mutex. *)
LEMMA OpenStep ==
  ASSUME Core, NEW path \in Paths, NEW level \in Levels, At(Main, "idle"),
         streams' = Append(streams, Stream(path)),
         GoTo(Main, [Idle EXCEPT !.pc = "add", !.path = path, !.level = level,
                                 !.file = Len(streams) + 1]),
         UNCHANGED <<settings, s_callbacks, s_max_out_verbosity, s_stderr_indentation,
                     s_flush_thread, s_mutex, disk, ended, levels, lost>>
  PROVE  Core'
<1> DEFINE to == [Idle EXCEPT !.pc = "add", !.path = path, !.level = level,
                              !.file = Len(streams) + 1]
<1>0. PICK n : n = Len(streams)
  OBVIOUS
<1>1. /\ n \in Nat /\ n >= 1 /\ DOMAIN streams = 1 .. n
      /\ th \in [Threads -> ThreadType] /\ Main \in Threads
      /\ Running /\ th[Main].at.pc = "idle" /\ th[Main].scopes \in Seq(ScopeType)
  BY <1>0, CoreTypes, ThreadsAssumption, ThreadFields DEF At
<1>2. /\ to \in AtType /\ to.pc = "add" /\ to.path = path /\ to.level = level
      /\ to.file = n + 1
  <2> DEFINE m == Len(streams) + 1
  <2>1. m \in Nat /\ m = n + 1 /\ level \in Int
    BY <1>0, <1>1, LevelsAssumption
  <2> HIDE DEF m
  <2>2. LET at == [Idle EXCEPT !.pc = "add", !.path = path, !.level = level, !.file = m]
        IN  /\ at \in AtType /\ at.pc = "add" /\ at.path = path /\ at.level = level
            /\ at.file = m
    BY <2>1, IdleIs DEF AtType
  <2> QED BY <2>1, <2>2 DEF m
<1>3. Becomes(Main, to, th[Main].scopes)
  BY DEF GoTo
<1> HIDE DEF to
<1>4. /\ th' \in [Threads -> ThreadType] /\ th'[Main].at = to
      /\ th'[Main].scopes = th[Main].scopes
      /\ \A u \in Threads \ {Main} : th'[u] = th[u]
  BY <1>1, <1>2, <1>3, ThreadsMove
<1>5. /\ streams' \in Seq(StreamType) /\ Len(streams') = n + 1
      /\ \A f \in DOMAIN streams : streams'[f] = streams[f]
      /\ streams'[n + 1].path = path /\ streams'[n + 1].open
      /\ streams'[n + 1].text = <<>>
  BY <1>0, CoreTypes, OpenedStreams
<1>6. DOMAIN streams' = 1 .. n + 1 /\ \A f \in DOMAIN streams : f \in DOMAIN streams'
  BY <1>1, <1>5
<1>7. \A f, p : IsFile(f, p) => IsFile(f, p)'
  BY <1>0, <1>1, <1>5 DEF IsFile
<1>8. Types'
  <2>1. n + 1 >= 1
    BY <1>1
  <2>2. Len(streams') >= 1
    BY <1>5, <2>1
  <2> QED BY <1>4, <1>5, <2>2 DEF Core, Types, settings
<1>9. Holders' /\ MaximumIsKnown' /\ TheLastWordIsWritten' /\ Ending'
  BY <1>1, <1>2, <1>4
  DEF Core, Holders, MaximumIsKnown, TheLastWordIsWritten, Ending, Running, Changing
<1>10. FilesAreOpen' /\ FilesAreApart'
  BY <1>7 DEF Core, FilesAreOpen, FilesAreApart
<1>11. AddedIsOpen'
  <2>1. IsFile(n + 1, path)'
    BY <1>1, <1>5 DEF IsFile
  <2>2. \A k \in DOMAIN s_callbacks : s_callbacks[k].fp # n + 1
    <3>1. SUFFICES ASSUME NEW k \in DOMAIN s_callbacks PROVE s_callbacks[k].fp # n + 1
      OBVIOUS
    <3>2. s_callbacks[k].fp = 0 \/ s_callbacks[k].fp \in 2 .. n
      BY <1>0, CoreTypes
    <3> QED BY <1>1, <3>2
  <2>3. \A u \in Threads : th'[u].at.pc = "add" => u = Main
    BY <1>4 DEF Core, AddedIsOpen
  <2> QED BY <1>2, <1>4, <2>1, <2>2, <2>3 DEF AddedIsOpen
<1>12. TextsInOrder'
  <2>1. InOrder(streams'[n + 1].text) /\ Below(streams'[n + 1].text, Len(levels))
    BY <1>5 DEF InOrder, Below
  <2>2. \A f \in DOMAIN streams' : f \in DOMAIN streams \/ f = n + 1
    BY <1>1, <1>6
  <2> QED BY <1>5, <2>1, <2>2 DEF Core, TextsInOrder
<1>13. \A u \in Threads : th'[u].at.pc = "deliver" => th'[u] = th[u]
  BY <1>2, <1>4
<1>14. Delivering'
  <2>1. ASSUME NEW at, NEW k \in DOMAIN s_callbacks, HasCome(at, k) PROVE HasCome(at, k)'
    <3>1. s_callbacks[k].fp # 0 => s_callbacks[k].fp \in DOMAIN streams
      BY <1>0, <1>1, CoreTypes
    <3> QED BY <1>5, <2>1, <3>1 DEF HasCome
  <2> QED BY <1>13, <2>1 DEF Core, Delivering
<1>15. Everywhere'
  <2>1. ASSUME NEW p, NEW m, Arrived(p, m) PROVE Arrived(p, m)'
    BY <1>5, <1>6, <2>1 DEF Arrived
  <2>2. ASSUME NEW k, NEW m, OnItsWay(k, m) PROVE OnItsWay(k, m)'
    BY <1>1, <1>4, <2>2 DEF OnItsWay
  <2> QED BY <2>1, <2>2 DEF Core, Everywhere, Wanted
<1>16. ScopesAreCounted'
  <2>1. \A u \in Threads : th'[u].scopes = th[u].scopes
    BY <1>4
  <2> QED BY <2>1, SameScopes DEF Core, ScopesAreCounted, IndentedByOpenScopes
<1> QED BY <1>8, <1>9, <1>10, <1>11, <1>12, <1>14, <1>15, <1>16 DEF Core

(***************************************************************************)
(* The files change: those that stay are as they were, and a new one takes *)
(* what comes from now on.                                                 *)
(***************************************************************************)
LEMMA ChangeStep ==
  ASSUME Core, Running, NEW t \in Threads, NEW cs \in Seq(FileType),
         NEW next \in {"idle", "header"}, Change(t, cs, next),
         UNCHANGED <<settings, s_stderr_indentation, s_flush_thread, disk, ended, levels,
                     lost>>,
         streams' \in Seq(StreamType), Len(streams') = Len(streams),
         \A f \in DOMAIN streams : /\ streams'[f].path = streams[f].path
                                   /\ streams'[f].text = streams[f].text,
         FilesAreOpen', FilesAreApart',
         \A u \in Threads \ {t} : th[u].at.pc = "add" =>
           /\ streams'[th[u].at.file].open
           /\ \A k \in DOMAIN cs : cs[k].fp # th[u].at.file,
         \A k \in DOMAIN cs : \/ \E j \in DOMAIN s_callbacks : cs[k] = s_callbacks[j]
                              \/ cs[k].since = Len(levels) /\ cs[k].indentation = 0
  PROVE  Core'
<1> DEFINE to == [th[t].at EXCEPT !.pc = "maximum", !.next = next]
<1>1. /\ s_mutex = "free" /\ s_mutex' = t /\ s_callbacks' = cs
      /\ s_max_out_verbosity' = OFF /\ Becomes(t, to, th[t].scopes)
  BY DEF Change, GoTo
<1>2. /\ th \in [Threads -> ThreadType] /\ th[t].scopes \in Seq(ScopeType)
      /\ to \in AtType /\ to.pc = "maximum"
  <2>1. th \in [Threads -> ThreadType] /\ th[t].at \in AtType /\ th[t].scopes \in Seq(ScopeType)
    BY CoreTypes, ThreadFields
  <2>2. next \in {"idle", "header", "remove all", "flush"}
    OBVIOUS
  <2> QED BY <2>1, <2>2 DEF AtType
<1> HIDE DEF to
<1>3. /\ th' \in [Threads -> ThreadType] /\ th'[t].at = to
      /\ th'[t].scopes = th[t].scopes
      /\ \A u \in Threads \ {t} : th'[u] = th[u]
  BY <1>1, <1>2, ThreadsMove
<1>4. PICK n : n = Len(streams)
  OBVIOUS
<1>5. /\ n \in Nat /\ n >= 1 /\ DOMAIN streams = 1 .. n /\ Len(streams') = n
      /\ DOMAIN streams' = 1 .. n
  BY <1>4, CoreTypes
<1>6. \A u \in Threads : /\ th[u].at.pc \notin {"deliver", "maximum"}
                         /\ th'[u].at.pc = "maximum" => u = t
                         /\ th'[u].at.pc # "deliver"
                         /\ u # t => th'[u] = th[u]
  BY <1>1, <1>2, <1>3, NobodyHolds
<1>7. Types'
  <2>1. Types /\ OFF \in Int
    BY DEF Core, OFF
  <2>2. Len(streams') >= 1
    BY <1>5
  <2> QED BY <1>1, <1>3, <2>1, <2>2 DEF Types, settings
<1>8. Holders' /\ Delivering' /\ Ending' /\ MaximumIsKnown'
  <2>1. th'[t].at.pc = "maximum"
    BY <1>2, <1>3
  <2>2. Ending'
    BY <1>3, <1>6, <2>1 DEF Core, Ending
  <2> QED BY <1>1, <1>6, <2>1, <2>2 DEF Holders, Delivering, MaximumIsKnown, Changing
<1>9. AddedIsOpen'
  <2>1. SUFFICES ASSUME NEW u \in Threads, th'[u].at.pc = "add"
                 PROVE  /\ u = Main /\ th[u].at.path \in Paths /\ th[u].at.level \in Levels
                        /\ IsFile(th[u].at.file, th[u].at.path)'
                        /\ \A k \in DOMAIN s_callbacks' : s_callbacks'[k].fp # th'[u].at.file
                        /\ th'[u] = th[u]
    BY DEF AddedIsOpen
  <2>2. u # t /\ th'[u] = th[u]
    BY <1>2, <1>3, <2>1
  <2>3. PICK f : f = th[u].at.file
    OBVIOUS
  <2>4. /\ u = Main /\ th[u].at.path \in Paths /\ th[u].at.level \in Levels
        /\ f \in 2 .. n /\ streams[f].path = th[u].at.path
    BY <1>4, <2>1, <2>2, <2>3 DEF Core, AddedIsOpen, IsFile
  <2>5. streams'[f].open /\ f \in DOMAIN streams /\ f \in 2 .. Len(streams')
    BY <1>5, <2>1, <2>2, <2>3, <2>4
  <2>6. IsFile(th[u].at.file, th[u].at.path)'
    BY <2>2, <2>3, <2>4, <2>5 DEF IsFile
  <2> QED BY <1>1, <2>1, <2>2, <2>4, <2>6
<1>10. TextsInOrder'
  BY <1>5 DEF Core, TextsInOrder
<1>11. Everywhere'
  <2>1. SUFFICES ASSUME NEW k \in DOMAIN cs, NEW m \in Nat, Wanted(cs[k], m)
                 PROVE  Arrived(cs[k].path, m)'
    BY <1>1 DEF Everywhere, Wanted
  <2>2. cs[k].since # Len(levels)
    <3>1. PICK e : e = Len(levels)
      OBVIOUS
    <3>2. e \in Nat /\ ~ (m \in e + 1 .. e)
      BY <3>1, CoreTypes
    <3> QED BY <2>1, <3>1, <3>2 DEF Wanted
  <2>3. PICK j \in DOMAIN s_callbacks : cs[k] = s_callbacks[j]
    BY <2>2
  <2>4. Arrived(cs[k].path, m)
    BY <1>6, <2>1, <2>3 DEF Core, Everywhere, OnItsWay
  <2> QED BY <1>5, <2>4 DEF Arrived
<1>12. TheLastWordIsWritten'
  BY DEF TheLastWordIsWritten, Running
<1>13. ScopesAreCounted'
  <2>1. \A u \in Threads : th'[u].scopes = th[u].scopes
    BY <1>3
  <2>2. ASSUME NEW k \in DOMAIN cs
        PROVE  cs[k].indentation <= Cardinality(Covering(cs[k].verbosity))
    <3>1. Cardinality(Covering(cs[k].verbosity)) \in Nat
      BY CountedTypes DEF Core
    <3>2. CASE cs[k].indentation = 0
      BY <3>1, <3>2
    <3>3. CASE cs[k].indentation # 0
      BY <2>2, <3>3 DEF Core, ScopesAreCounted, IndentedByOpenScopes
    <3> QED BY <3>2, <3>3
  <2>3. /\ OpenScopes' = OpenScopes /\ Indenting' = Indenting
        /\ \A v : (Covering(v))' = Covering(v)
    BY <2>1, SameScopes
  <2>4. IndentedByOpenScopes
    BY DEF Core, ScopesAreCounted
  <2>5. IndentedByOpenScopes'
    BY <1>1, <2>2, <2>3, <2>4 DEF IndentedByOpenScopes
  <2> QED BY <2>3, <2>5 DEF Core, ScopesAreCounted
<1> QED BY <1>7, <1>8, <1>9, <1>10, <1>11, <1>12, <1>13 DEF Core

LEMMA AddCallbackStep == ASSUME Core, NEW t \in Threads, AddCallback(t) PROVE Core'
<1> DEFINE at == th[t].at
           c == [path |-> at.path, fp |-> at.file, verbosity |-> at.level,
                 indentation |-> 0, ino |-> disk[at.path], since |-> Len(levels)]
           cs == Append(s_callbacks, c)
<1>1. /\ Running /\ at.pc = "add" /\ Change(t, cs, "header")
      /\ UNCHANGED <<settings, s_stderr_indentation, s_flush_thread, streams, disk, ended,
                     levels, lost>>
  BY DEF AddCallback, At
<1>2. /\ at.path \in Paths /\ at.level \in Levels /\ t = Main
      /\ IsFile(at.file, at.path) /\ \A k \in DOMAIN s_callbacks : s_callbacks[k].fp # at.file
      /\ \A u \in Threads : th[u].at.pc = "add" => u = t
  BY <1>1 DEF Core, AddedIsOpen
<1>3. /\ c \in FileType /\ c.path = at.path /\ c.fp = at.file /\ c.since = Len(levels)
      /\ c.indentation = 0
  <2>1. at.file \in Nat /\ disk[at.path] \in Nat /\ Len(levels) \in Nat
    BY <1>2, CoreTypes, ThreadFields DEF Core, Types
  <2> QED BY <1>2, <2>1 DEF FileType
<1> HIDE DEF c
<1>4. PICK n : n = Len(s_callbacks)
  OBVIOUS
<1>5. /\ cs \in Seq(FileType) /\ DOMAIN cs = 1 .. n + 1 /\ n \in Nat
      /\ DOMAIN s_callbacks = 1 .. n
      /\ cs[n + 1] = c /\ \A k \in 1 .. n : cs[k] = s_callbacks[k]
  BY <1>3, <1>4, CoreTypes
<1> HIDE DEF cs
<1>6. s_callbacks' = cs
  BY <1>1 DEF Change
<1>7. \A k \in DOMAIN cs : k = n + 1 \/ (k \in DOMAIN s_callbacks /\ cs[k] = s_callbacks[k])
  BY <1>5
<1>8. FilesAreOpen'
  <2>1. \A f, path : IsFile(f, path) => IsFile(f, path)'
    BY <1>1 DEF IsFile
  <2> QED BY <1>2, <1>3, <1>5, <1>6, <1>7, <2>1 DEF Core, FilesAreOpen
<1>9. FilesAreApart'
  BY <1>2, <1>3, <1>5, <1>6, <1>7 DEF Core, FilesAreApart
<1>10. \A k \in DOMAIN cs : \/ \E j \in DOMAIN s_callbacks : cs[k] = s_callbacks[j]
                            \/ cs[k].since = Len(levels) /\ cs[k].indentation = 0
  BY <1>3, <1>5, <1>7
<1>11. streams' \in Seq(StreamType) /\ streams' = streams
  BY <1>1, CoreTypes
<1>12. \A u \in Threads \ {t} : th[u].at.pc # "add"
  BY <1>2
<1> QED BY <1>1, <1>5, <1>8, <1>9, <1>10, <1>11, <1>12, ChangeStep

(* Some files are removed, and their streams closed. *)
Keeps(cs, files, was) ==
  /\ cs \in Seq(FileType) /\ files \subseteq Files(s_callbacks)
  /\ was \in [DOMAIN cs -> DOMAIN s_callbacks]
  /\ \A k \in DOMAIN cs : cs[k] = s_callbacks[was[k]] /\ cs[k].fp \notin files
  /\ \A j, k \in DOMAIN cs : was[j] = was[k] => j = k

LEMMA RemoveStep ==
  ASSUME Core, Running, NEW t \in Threads, NEW cs, NEW files, NEW was,
         Keeps(cs, files, was),
         Change(t, cs, "idle"), streams' = fclose(streams, files),
         UNCHANGED <<settings, s_stderr_indentation, s_flush_thread, disk, ended, levels,
                     lost>>
  PROVE  Core'
<1>0. /\ cs \in Seq(FileType) /\ files \subseteq Files(s_callbacks)
      /\ was \in [DOMAIN cs -> DOMAIN s_callbacks]
      /\ \A k \in DOMAIN cs : cs[k] = s_callbacks[was[k]] /\ cs[k].fp \notin files
      /\ \A j, k \in DOMAIN cs : was[j] = was[k] => j = k
  BY DEF Keeps
<1> USE <1>0
<1>1. /\ streams' \in Seq(StreamType) /\ Len(streams') = Len(streams)
      /\ \A f \in DOMAIN streams : /\ streams'[f].path = streams[f].path
                                   /\ streams'[f].text = streams[f].text
                                   /\ f \notin files => streams'[f] = streams[f]
  BY CoreTypes, ClosedStreams
<1>2. s_callbacks' = cs
  BY DEF Change
<1>3. FilesAreOpen'
  <2>1. SUFFICES ASSUME NEW k \in DOMAIN cs, cs[k].fp # 0
                 PROVE  IsFile(cs[k].fp, cs[k].path)'
    BY <1>2 DEF FilesAreOpen
  <2>2. PICK f, path : f = cs[k].fp /\ path = cs[k].path
    OBVIOUS
  <2>3. IsFile(f, path)
    BY <2>1, <2>2 DEF Core, FilesAreOpen
  <2>4. f \in DOMAIN streams /\ f \notin files
    BY <2>2, <2>3, CoreTypes DEF IsFile
  <2>5. IsFile(f, path)'
    BY <1>1, <2>3, <2>4 DEF IsFile
  <2> QED BY <2>2, <2>5 DEF IsFile
<1>4. FilesAreApart'
  BY <1>2 DEF Core, FilesAreApart
<1>5. ASSUME NEW u \in Threads \ {t}, th[u].at.pc = "add"
      PROVE  /\ streams'[th[u].at.file].open
             /\ \A k \in DOMAIN cs : cs[k].fp # th[u].at.file
  <2>1. /\ IsFile(th[u].at.file, th[u].at.path)
        /\ \A k \in DOMAIN s_callbacks : s_callbacks[k].fp # th[u].at.file
    BY <1>5 DEF Core, AddedIsOpen
  <2>2. PICK f : f = th[u].at.file
    OBVIOUS
  <2>3. f \in DOMAIN streams /\ streams[f].open
    BY <2>1, <2>2, CoreTypes DEF IsFile
  <2>4. f \notin files
    BY <2>1, <2>2, FilesAre
  <2> QED BY <1>1, <2>1, <2>2, <2>3, <2>4
<1>6. \A k \in DOMAIN cs : \E j \in DOMAIN s_callbacks : cs[k] = s_callbacks[j]
  OBVIOUS
<1> QED BY <1>1, <1>3, <1>4, <1>5, <1>6, ChangeStep

LEMMA RemoveAllStep ==
  ASSUME Core, NEW t \in Threads, RemoveAllCallbacks(t) PROVE Core'
<1> DEFINE cs == <<>>
           was == [k \in DOMAIN cs |-> 1]
<1>1. /\ Running /\ Change(t, cs, "idle") /\ streams' = fclose(streams, Files(s_callbacks))
      /\ UNCHANGED <<settings, s_stderr_indentation, s_flush_thread, disk, ended, levels, lost>>
  BY DEF RemoveAllCallbacks, At
<1>2. cs \in Seq(FileType) /\ DOMAIN cs = {}
  OBVIOUS
<1>3. was \in [DOMAIN cs -> DOMAIN s_callbacks]
  BY <1>2
<1> HIDE DEF cs, was
<1>4. Keeps(cs, Files(s_callbacks), was)
  BY <1>2, <1>3 DEF Keeps
<1> QED BY <1>1, <1>4, RemoveStep

LEMMA RemoveCallbackStep ==
  ASSUME Core, Running, NEW path \in Paths,
         NEW found, found = {i \in DOMAIN s_callbacks : s_callbacks[i].path = path},
         found # {},
         Change(Main, RemoveAt(s_callbacks, Min(found)), "idle"),
         streams' = fclose(streams, {s_callbacks[Min(found)].fp} \ {0}),
         UNCHANGED <<settings, s_stderr_indentation, s_flush_thread, disk, ended, levels,
                     lost>>
  PROVE  Core'
<1>1. PICK i : i = Min(found)
  OBVIOUS
<1>2. i \in DOMAIN s_callbacks
  <2>1. found \in SUBSET Nat
    BY CoreTypes
  <2>2. \E x \in found : \A y \in found : x <= y
    BY <2>1, LeastElement
  <2>3. Min(found) \in found
    BY <2>2 DEF Min
  <2> QED BY <1>1, <2>3
<1> DEFINE cs == RemoveAt(s_callbacks, i)
           files == {s_callbacks[i].fp} \ {0}
           was == [k \in DOMAIN cs |-> IF k < i THEN k ELSE k + 1]
<1>3. PICK n : n = Len(s_callbacks)
  OBVIOUS
<1>4. n \in Nat /\ DOMAIN s_callbacks = 1 .. n /\ i \in 1 .. n
  BY <1>2, <1>3, CoreTypes
<1>5. /\ cs \in Seq(FileType) /\ DOMAIN cs = 1 .. n - 1
      /\ \A k \in 1 .. n - 1 : cs[k] = IF k < i THEN s_callbacks[k] ELSE s_callbacks[k + 1]
  BY <1>2, <1>3, CoreTypes, RemovedAt
<1>6. Change(Main, cs, "idle") /\ streams' = fclose(streams, files)
  BY <1>1
<1> HIDE DEF cs
<1>7. /\ was \in [DOMAIN cs -> DOMAIN s_callbacks]
      /\ \A k \in DOMAIN cs : was[k] # i /\ cs[k] = s_callbacks[was[k]]
      /\ \A j, k \in DOMAIN cs : was[j] = was[k] => j = k
  BY <1>4, <1>5
<1> HIDE DEF was
<1>8. files \subseteq Files(s_callbacks)
  BY <1>2 DEF Files
<1>9. \A k \in DOMAIN cs : cs[k].fp \notin files
  <2>1. SUFFICES ASSUME NEW k \in DOMAIN cs, cs[k].fp \in files PROVE FALSE
    OBVIOUS
  <2>2. PICK j : j = was[k]
    OBVIOUS
  <2>3. /\ j \in DOMAIN s_callbacks /\ j # i /\ s_callbacks[j].fp = s_callbacks[i].fp
        /\ s_callbacks[j].fp # 0
    BY <1>7, <2>1, <2>2
  <2> QED BY <1>2, <2>3 DEF Core, FilesAreApart
<1> HIDE DEF files
<1>10. \A k \in DOMAIN cs : cs[k] = s_callbacks[was[k]] /\ cs[k].fp \notin files
  BY <1>7, <1>9
<1>11. Main \in Threads
  BY ThreadsAssumption
<1>12. Keeps(cs, files, was)
  BY <1>5, <1>7, <1>8, <1>10 DEF Keeps
<1> QED BY <1>6, <1>11, <1>12, RemoveStep

(* The mutex is given up when the maximum is known. *)
LEMMA MaximumStep == ASSUME Core, NEW t \in Threads, Maximum(t) PROVE Core'
<1> DEFINE at == th[t].at
           to == IF at.next = "idle" THEN Idle ELSE [at EXCEPT !.pc = at.next]
<1>1. /\ Running /\ at.pc = "maximum" /\ s_mutex' = "free"
      /\ s_max_out_verbosity' = MaximumOf(s_callbacks) /\ Becomes(t, to, th[t].scopes)
      /\ UNCHANGED <<settings, s_callbacks, s_stderr_indentation, s_flush_thread, streams,
                     disk, ended, levels, lost>>
  BY DEF Maximum, At, Goes, GoTo
<1>2. /\ th \in [Threads -> ThreadType] /\ at \in AtType /\ th[t].scopes \in Seq(ScopeType)
      /\ at.next \in {"idle", "header", "remove all", "flush"}
  BY CoreTypes, ThreadFields
<1>3. to \in AtType /\ to.pc = at.next
  <2>1. CASE at.next = "idle"
    BY <2>1, IdleIs
  <2>2. CASE at.next # "idle"
    <3>1. PICK pc : pc = at.next
      OBVIOUS
    <3>2. pc \in {"header", "remove all", "flush"} /\ to = [at EXCEPT !.pc = pc]
      BY <1>2, <2>2, <3>1
    <3>3. pc \in {"idle", "enter", "deliver", "maximum", "header", "remove all", "flush"}
      BY <3>2
    <3> HIDE DEF to, at
    <3>4. [at EXCEPT !.pc = pc] \in AtType /\ [at EXCEPT !.pc = pc].pc = pc
      BY <1>2, <3>3, PlaceIs
    <3> QED BY <3>1, <3>2, <3>4
  <2> QED BY <2>1, <2>2
<1> HIDE DEF to
<1>4. /\ th' \in [Threads -> ThreadType] /\ th'[t].at = to /\ th'[t].scopes = th[t].scopes
      /\ \A u \in Threads \ {t} : th'[u] = th[u]
  BY <1>1, <1>2, <1>3, ThreadsMove
<1>5. /\ \A u \in Threads : th[u].at.pc # "deliver"
      /\ \A u \in Threads \ {t} : th[u].at.pc # "maximum"
      /\ \A u \in Threads : th'[u].at.pc \notin {"deliver", "maximum"}
      /\ th'[t].at.pc \notin {"add", "check", "enter"}
  <2>1. s_mutex = t /\ \A u \in Threads \ {t} : th[u].at.pc \notin {"deliver", "maximum"}
    BY <1>1 DEF Core, Holders
  <2> QED BY <1>1, <1>2, <1>3, <1>4, <2>1
<1>6. /\ MaximumOf(s_callbacks) \in Int
      /\ \A i \in DOMAIN s_callbacks : s_callbacks[i].verbosity <= MaximumOf(s_callbacks)
  BY CoreTypes, MaximumIsGreatest
<1>7. Types'
  BY <1>1, <1>4, <1>6, ThreadsAssumption DEF Core, Types, settings
<1>8. Holders' /\ Delivering'
  BY <1>5 DEF Holders, Delivering
<1>9. MaximumIsKnown'
  BY <1>1, <1>6 DEF MaximumIsKnown
<1>10. FilesAreOpen' /\ FilesAreApart' /\ TextsInOrder'
  BY <1>1 DEF Core, FilesAreOpen, FilesAreApart, TextsInOrder, IsFile
<1>11. AddedIsOpen' /\ Ending'
  BY <1>1, <1>4, <1>5 DEF Core, AddedIsOpen, Ending, IsFile
<1>12. Everywhere' /\ TheLastWordIsWritten'
  BY <1>1, <1>5 DEF Core, Everywhere, Wanted, Arrived, OnItsWay, TheLastWordIsWritten, Running
<1>13. ScopesAreCounted'
  <2>1. \A u \in Threads : th'[u].scopes = th[u].scopes
    BY <1>4
  <2> QED BY <1>1, <2>1, SameScopes DEF Core, ScopesAreCounted, IndentedByOpenScopes
<1> QED BY <1>7, <1>8, <1>9, <1>10, <1>11, <1>12, <1>13 DEF Core

-----------------------------------------------------------------------------
(***************************************************************************)
(* The end of the program.                                                 *)
(***************************************************************************)
LEMMA AtExitStep == ASSUME Core, AtExit PROVE Core'
<1>1. /\ s_mutex = "free" /\ streams' = FlushAll(streams, s_callbacks)
      /\ ended' = "exited" /\ s_needs_flushing' = FALSE
      /\ th' = [t \in Threads |-> [at |-> Idle, scopes |-> th[t].scopes]]
      /\ UNCHANGED <<settings, s_callbacks, s_max_out_verbosity, s_stderr_indentation,
                     s_flush_thread, s_mutex, disk, levels, lost>>
      /\ Running
  BY DEF AtExit, At
<1>2. Files(s_callbacks) \subseteq DOMAIN streams
  BY FilesAre
<1>3. /\ SameTexts(streams, streams') /\ DOMAIN streams' = DOMAIN streams
      /\ \A f \in Files(s_callbacks) : streams'[f].flushed = Len(streams'[f].text)
  BY <1>1, <1>2, CoreTypes, FlushedAll
<1>4. /\ streams' \in Seq(StreamType) /\ Len(streams') = Len(streams)
      /\ \A f \in DOMAIN streams : /\ streams'[f].path = streams[f].path
                                   /\ streams'[f].open = streams[f].open
                                   /\ streams'[f].text = streams[f].text
  BY <1>3 DEF SameTexts
<1>5. TextsInOrder'
  BY <1>1, <1>3, <1>4 DEF Core, TextsInOrder
<1>6. Everywhere'
  <2>1. \A k, m : ~ OnItsWay(k, m)
    BY <1>1, NobodyHolds DEF OnItsWay
  <2>2. ASSUME NEW path, NEW m, Arrived(path, m) PROVE Arrived(path, m)'
    BY <1>1, <1>3, <1>4, <2>2 DEF Arrived
  <2> QED BY <1>1, <2>1, <2>2 DEF Core, Everywhere, Wanted, Running
<1>7. TheLastWordIsWritten'
  BY <1>1, <1>3 DEF TheLastWordIsWritten
<1>8. \A t \in Threads : /\ [at |-> Idle, scopes |-> th[t].scopes] \in ThreadType
                         /\ th'[t].at.pc = "idle" /\ th'[t].scopes = th[t].scopes
  BY <1>1, CoreTypes, ThreadFields, IdleIs DEF ThreadType
<1>9. th' \in [Threads -> ThreadType]
  BY <1>1, <1>8
<1>10. Types'
  <2>1. Types
    BY DEF Core
  <2>2. Len(streams') >= 1
    BY <1>4, CoreTypes
  <2> QED BY <1>1, <1>4, <1>9, <2>1, <2>2 DEF Types, settings
<1>11. Holders' /\ Delivering' /\ AddedIsOpen' /\ Ending' /\ MaximumIsKnown'
  BY <1>1, <1>8 DEF Holders, Delivering, AddedIsOpen, Ending, MaximumIsKnown, Running
<1>12. \A f, path : IsFile(f, path) => IsFile(f, path)'
  <2>1. PICK n : n = Len(streams)
    OBVIOUS
  <2>2. n \in Nat /\ n = Len(streams') /\ DOMAIN streams = 1 .. n
    BY <1>4, <2>1, CoreTypes
  <2>3. \A f \in 2 .. Len(streams) : f \in DOMAIN streams /\ f \in 2 .. Len(streams')
    BY <2>1, <2>2
  <2> QED BY <1>4, <2>3 DEF IsFile
<1>13. FilesAreOpen' /\ FilesAreApart'
  BY <1>1, <1>12 DEF Core, FilesAreOpen, FilesAreApart
<1>14. ScopesAreCounted'
  <2>1. \A u \in Threads : th'[u].scopes = th[u].scopes
    BY <1>8
  <2> QED BY <1>1, <2>1, SameScopes DEF Core, ScopesAreCounted, IndentedByOpenScopes
<1> QED BY <1>5, <1>6, <1>7, <1>10, <1>11, <1>13, <1>14 DEF Core

-----------------------------------------------------------------------------
(***************************************************************************)
(* The steps that only move a thread on, or only flush.                    *)
(***************************************************************************)
LEMMA MoveStep ==
  ASSUME Core, Running, NEW t \in Threads, NEW at \in AtType, GoTo(t, at),
         th[t].at.pc \notin {"deliver", "maximum"},
         at.pc \notin {"deliver", "maximum", "add"},
         at.pc = "check" => at.op # "end",
         at.pc = "enter" /\ at.op = "end" =>
           th[t].scopes # <<>> /\ Last(th[t].scopes).v = at.v,
         UNCHANGED <<settings, s_callbacks, s_max_out_verbosity, s_stderr_indentation,
                     s_flush_thread, s_mutex, streams, disk, ended, levels, lost>>
  PROVE  Core'
<1>1. /\ th \in [Threads -> ThreadType] /\ th[t].scopes \in Seq(ScopeType)
      /\ Becomes(t, at, th[t].scopes)
  BY CoreTypes, ThreadFields DEF GoTo
<1>2. /\ th' \in [Threads -> ThreadType] /\ th'[t].at = at /\ th'[t].scopes = th[t].scopes
      /\ \A u \in Threads \ {t} : th'[u] = th[u]
  BY <1>1, ThreadsMove
<1>3. \A u \in Threads : MovesQuietly(u)
  BY <1>2 DEF MovesQuietly
<1>4. SameTexts(streams, streams')
  BY CoreTypes DEF SameTexts
<1>5. s_flush_thread' \in {"none", "polls", "flushes"} /\ disk' \in [Paths -> Nat]
  BY DEF Core, Types
<1>6. Quiet
  BY <1>2, <1>3, <1>4, <1>5 DEF Quiet
<1> QED BY <1>6, QuietStep

(* A thread begins to write a message. *)
LEMMA SayStep ==
  ASSUME Core, Running, NEW t \in Threads, th[t].at.pc \in {"idle", "header"},
         NEW v \in Int, NEW op \in {"log", "begin"},
         NEW next \in {"idle", "header", "remove all", "flush"},
         GoTo(t, Says(Idle, v, op, next)),
         UNCHANGED <<settings, s_callbacks, s_max_out_verbosity, s_stderr_indentation,
                     s_flush_thread, s_mutex, streams, disk, ended, levels, lost>>
  PROVE  Core'
<1>1. PICK at : at = Says(Idle, v, op, next)
  OBVIOUS
<1>2. at \in AtType /\ at.pc = "check" /\ at.op = op
  <2>1. op \in {"log", "begin", "end"} /\ Idle \in AtType
    BY IdleIs
  <2>2. /\ Says(Idle, v, op, next) \in AtType /\ Says(Idle, v, op, next).pc = "check"
        /\ Says(Idle, v, op, next).op = op
    BY <2>1 DEF Says, AtType
  <2> QED BY <1>1, <2>2
<1> QED BY <1>1, <1>2, MoveStep

LEMMA CallStep == ASSUME Core, NEW t \in Threads, Call(t) PROVE Core'
<1>1. Running /\ th[t].at.pc = "idle"
  BY DEF Call, Calls, At
<1>2. PICK v \in Levels \cup {FATAL}, op \in {"log", "begin"} :
        GoTo(t, Says(Idle, v, op, "idle"))
  BY DEF Call
<1>3. v \in Int
  BY LevelsAssumption DEF FATAL
<1>4. UNCHANGED <<settings, s_callbacks, s_max_out_verbosity, s_stderr_indentation,
                  s_flush_thread, s_mutex, streams, disk, ended, levels, lost>>
  BY DEF Call, logging
<1>5. "idle" \in {"idle", "header", "remove all", "flush"}
  OBVIOUS
<1> QED BY <1>1, <1>2, <1>3, <1>4, <1>5, SayStep

LEMMA EndScopeStep == ASSUME Core, NEW t \in Threads, EndScope(t) PROVE Core'
<1> DEFINE v == Last(th[t].scopes).v
           at == [Idle EXCEPT !.pc = "enter", !.op = "end", !.v = v]
<1>1. /\ Running /\ th[t].at.pc = "idle" /\ th[t].scopes # <<>> /\ GoTo(t, at)
  BY DEF EndScope, At
<1>2. v \in Int
  <2>1. PICK scopes : scopes = th[t].scopes
    OBVIOUS
  <2>2. scopes \in Seq(ScopeType) /\ Len(scopes) \in DOMAIN scopes
    BY <1>1, <2>1, CoreTypes, ThreadFields, FrontOf
  <2>3. Last(scopes) \in ScopeType
    BY <2>2 DEF Last
  <2> QED BY <2>1, <2>3 DEF ScopeType
<1>3. v = Last(th[t].scopes).v
  OBVIOUS
<1> HIDE DEF v
<1>4. at \in AtType /\ at.pc = "enter" /\ at.op = "end" /\ at.v = v
  BY <1>2, IdleIs DEF AtType
<1> HIDE DEF at
<1>5. UNCHANGED <<settings, s_callbacks, s_max_out_verbosity, s_stderr_indentation,
                  s_flush_thread, s_mutex, streams, disk, ended, levels, lost>>
  BY DEF EndScope, logging
<1> QED BY <1>1, <1>3, <1>4, <1>5, MoveStep

LEMMA CheckStep == ASSUME Core, NEW t \in Threads, Check(t) PROVE Core'
<1> DEFINE at == th[t].at
           pc == IF at.v <= current_verbosity_cutoff THEN "enter" ELSE at.next
           to == IF pc = "idle" THEN Idle ELSE [at EXCEPT !.pc = pc]
<1>1. Running /\ at.pc = "check" /\ GoTo(t, to)
  BY DEF Check, At, Goes
<1>2. /\ at \in AtType /\ at.next \in {"idle", "header", "remove all", "flush"}
      /\ at.op # "end"
  BY <1>1, CoreTypes, ThreadFields DEF Core, Ending
<1>3. pc \in {"idle", "enter", "header", "remove all", "flush"}
  BY <1>2
<1> HIDE DEF pc, at
<1>4. to \in AtType /\ to.pc = pc /\ (pc # "idle" => to.op = at.op)
  <2>1. CASE pc = "idle"
    BY <2>1, IdleIs
  <2>2. CASE pc # "idle"
    <3>1. pc \in {"idle", "enter", "deliver", "maximum", "header", "remove all", "flush"}
      BY <1>3
    <3>2. /\ [at EXCEPT !.pc = pc] \in AtType /\ [at EXCEPT !.pc = pc].pc = pc
          /\ [at EXCEPT !.pc = pc].op = at.op
      BY <1>2, <3>1, PlaceIs
    <3> QED BY <2>2, <3>2
  <2> QED BY <2>1, <2>2
<1> HIDE DEF to
<1>5. UNCHANGED <<settings, s_callbacks, s_max_out_verbosity, s_stderr_indentation,
                  s_flush_thread, s_mutex, streams, disk, ended, levels, lost>>
  BY DEF Check
<1>6. th[t].at.pc \notin {"deliver", "maximum"}
  BY <1>1 DEF at
<1> QED BY <1>1, <1>2, <1>3, <1>4, <1>5, <1>6, MoveStep

LEMMA HeaderStep == ASSUME Core, NEW t \in Threads, Header(t) PROVE Core'
<1>1. /\ Running /\ th[t].at.pc = "header" /\ GoTo(t, Says(Idle, INFO, "log", "idle"))
      /\ UNCHANGED <<settings, s_callbacks, s_max_out_verbosity, s_stderr_indentation,
                     s_flush_thread, s_mutex, streams, disk, ended, levels, lost>>
  BY DEF Header, At
<1>2. INFO \in Int
  BY DEF INFO
<1> QED BY <1>1, <1>2, SayStep

LEMMA AddFileStep == ASSUME Core, AddFile PROVE Core'
<1>1. /\ Running /\ At(Main, "idle") /\ th[Main].at.pc = "idle" /\ Main \in Threads
      /\ UNCHANGED <<settings, s_callbacks, s_max_out_verbosity, s_stderr_indentation,
                     s_flush_thread, s_mutex, disk, ended, levels, lost>>
  BY ThreadsAssumption DEF AddFile, Calls, At
<1>2. PICK p \in Paths, level \in Levels, opens \in BOOLEAN :
        IF opens
        THEN /\ streams' = Append(streams, Stream(p))
             /\ GoTo(Main, [Idle EXCEPT !.pc = "add", !.path = p, !.level = level,
                                     !.file = Len(streams) + 1])
        ELSE /\ GoTo(Main, Says(Idle, ERROR, "log", "idle"))
             /\ UNCHANGED streams
  BY DEF AddFile
<1>3. CASE opens
  BY <1>1, <1>2, <1>3, OpenStep
<1>4. CASE ~ opens
  <2>1. ERROR \in Int
    BY DEF ERROR
  <2> QED BY <1>1, <1>2, <1>4, <2>1, SayStep
<1> QED BY <1>3, <1>4

LEMMA RemoveStepOfMain == ASSUME Core, RemoveCallback PROVE Core'
<1>1. /\ Running /\ th[Main].at.pc = "idle" /\ Main \in Threads
      /\ UNCHANGED <<settings, s_stderr_indentation, s_flush_thread, disk, ended, levels,
                     lost>>
  BY ThreadsAssumption DEF RemoveCallback, Calls, At
<1>2. PICK p \in Paths :
        LET found == {i \in DOMAIN s_callbacks : s_callbacks[i].path = p}
        IN  IF found # {}
            THEN /\ Change(Main, RemoveAt(s_callbacks, Min(found)), "idle")
                 /\ streams' = fclose(streams, {s_callbacks[Min(found)].fp} \ {0})
            ELSE /\ GoTo(Main, Says(Idle, ERROR, "log", "idle"))
                 /\ UNCHANGED <<s_mutex, s_callbacks, s_max_out_verbosity, streams>>
  BY DEF RemoveCallback
<1>3. PICK found : found = {i \in DOMAIN s_callbacks : s_callbacks[i].path = p}
  OBVIOUS
<1>4. IF found # {}
      THEN /\ Change(Main, RemoveAt(s_callbacks, Min(found)), "idle")
           /\ streams' = fclose(streams, {s_callbacks[Min(found)].fp} \ {0})
      ELSE /\ GoTo(Main, Says(Idle, ERROR, "log", "idle"))
           /\ UNCHANGED <<s_mutex, s_callbacks, s_max_out_verbosity, streams>>
  BY <1>2, <1>3
<1>5. CASE found # {}
  BY <1>1, <1>3, <1>4, <1>5, RemoveCallbackStep
<1>6. CASE found = {}
  <2>1. ERROR \in Int
    BY DEF ERROR
  <2> QED BY <1>1, <1>4, <1>6, <2>1, SayStep
<1> QED BY <1>5, <1>6

LEMMA LeaveStep == ASSUME Core, Shutdown \/ Exit PROVE Core'
<1>1. /\ Running /\ th[Main].at.pc = "idle" /\ Main \in Threads /\ INFO \in Int
      /\ UNCHANGED <<settings, s_callbacks, s_max_out_verbosity, s_stderr_indentation,
                     s_flush_thread, s_mutex, streams, disk, ended, levels, lost>>
  <2>1. Running /\ th[Main].at.pc = "idle"
    BY DEF Shutdown, Exit, Calls, At
  <2>2. UNCHANGED <<settings, logging>>
    BY DEF Shutdown, Exit
  <2>3. UNCHANGED <<settings, s_callbacks, s_max_out_verbosity, s_stderr_indentation,
                    s_flush_thread, s_mutex, streams, disk, ended, levels, lost>>
    BY <2>2 DEF logging
  <2>4. INFO \in Int /\ Main \in Threads
    BY ThreadsAssumption DEF INFO
  <2> QED BY <2>1, <2>3, <2>4
<1>2. PICK next \in {"remove all", "flush"} : GoTo(Main, Says(Idle, INFO, "log", next))
  BY DEF Shutdown, Exit
<1>3. next \in {"idle", "header", "remove all", "flush"}
  OBVIOUS
<1> QED BY <1>1, <1>2, <1>3, SayStep

LEMMA OthersStep == ASSUME Core, Poll \/ FlushThread \/ Rotate PROVE Core'
<1>1. /\ Running
      /\ UNCHANGED <<settings, s_callbacks, s_max_out_verbosity, s_stderr_indentation,
                     s_mutex, th, ended, levels, lost>>
  BY DEF Poll, FlushThread, Rotate
<1>2. th' \in [Threads -> ThreadType] /\ \A u \in Threads : MovesQuietly(u)
  BY <1>1, CoreTypes DEF MovesQuietly
<1>3. s_flush_thread' \in {"none", "polls", "flushes"}
  BY DEF Core, Types, Poll, FlushThread, Rotate
<1>4. disk' \in [Paths -> Nat]
  <2>1. disk \in [Paths -> Nat]
    BY DEF Core, Types
  <2>2. CASE Rotate
    BY <2>1, <2>2 DEF Rotate
  <2>3. CASE Poll \/ FlushThread
    BY <2>1, <2>3 DEF Poll, FlushThread
  <2> QED BY <2>2, <2>3
<1>5. SameTexts(streams, streams')
  <2>1. CASE FlushThread
    <3>1. streams' = FlushAll(streams, s_callbacks)
      BY <2>1 DEF FlushThread
    <3> QED BY <3>1, CoreTypes, FilesAre, FlushedAll
  <2>2. CASE Poll \/ Rotate
    <3>1. streams' = streams
      BY <2>2 DEF Poll, Rotate
    <3> QED BY <3>1, CoreTypes DEF SameTexts
  <2> QED BY <2>1, <2>2
<1>6. Quiet
  BY <1>1, <1>2, <1>3, <1>4, <1>5 DEF Quiet
<1> QED BY <1>6, QuietStep

LEMMA StutterStep == ASSUME Core, UNCHANGED vars PROVE Core'
<1>1. UNCHANGED <<settings, s_callbacks, s_max_out_verbosity, s_stderr_indentation,
                  s_flush_thread, s_mutex, th, streams, disk, ended, levels, lost>>
  BY DEF vars
<1>2. Types' /\ Holders' /\ FilesAreOpen' /\ FilesAreApart' /\ AddedIsOpen'
  BY <1>1
  DEF Core, Types, Holders, FilesAreOpen, FilesAreApart, AddedIsOpen, IsFile, settings
<1>3. MaximumIsKnown' /\ TextsInOrder' /\ Delivering' /\ Ending' /\ TheLastWordIsWritten'
  BY <1>1
  DEF Core, MaximumIsKnown, Running, Changing, TextsInOrder, Delivering, HasCome, Ending,
      TheLastWordIsWritten
<1>4. Everywhere'
  BY <1>1 DEF Core, Everywhere, Wanted, Arrived, OnItsWay
<1>5. ScopesAreCounted'
  BY <1>1, SameScopes DEF Core, ScopesAreCounted, IndentedByOpenScopes
<1> QED BY <1>2, <1>3, <1>4, <1>5 DEF Core

-----------------------------------------------------------------------------
(***************************************************************************)
(* All the steps.                                                          *)
(***************************************************************************)
LEMMA CoreAtFirst == ASSUME Init PROVE Core
<1>0. streams = <<Stream("stderr")>> /\ s_callbacks = <<>> /\ levels = <<>> /\ ended = ""
  BY DEF Init
<1>3. /\ DOMAIN s_callbacks = {} /\ Len(streams) = 1 /\ DOMAIN streams = {1}
      /\ streams[1] = Stream("stderr")
  <2>1. PICK s : s = Stream("stderr")
    OBVIOUS
  <2>2. streams = <<s>>
    BY <1>0, <2>1
  <2>3. Len(streams) = 1 /\ DOMAIN streams = {1} /\ streams[1] = s
    BY <2>2
  <2>4. PICK e : e = s_callbacks
    OBVIOUS
  <2>5. e = <<>>
    BY <1>0, <2>4
  <2>6. DOMAIN e = {}
    BY <2>5
  <2> QED BY <2>1, <2>3, <2>4, <2>6
<1>1. Types
  <2>1. th \in [Threads -> ThreadType]
    <3>1. [at |-> Idle, scopes |-> <<>>] \in ThreadType
      BY IdleIs DEF ThreadType
    <3> QED BY <3>1 DEF Init
  <2>2. streams \in Seq(StreamType) /\ Len(streams) = 1
    <3>1. Stream("stderr") \in StreamType
      BY DEF Stream, StreamType, StreamRecord
    <3>2. PICK s : s = Stream("stderr")
      OBVIOUS
    <3>3. s \in StreamType /\ streams = <<s>>
      BY <1>0, <3>1, <3>2
    <3> QED BY <3>3
  <2>3. g_flush_interval_ms \in Nat /\ g_stderr_verbosity \in Int
    BY SettingsAssumption DEF Init
  <2>4. disk \in [Paths -> Nat]
    BY DEF Init
  <2>5. /\ s_callbacks \in Seq(FileType) /\ levels \in Seq(Int)
        /\ s_max_out_verbosity \in Int /\ s_stderr_indentation \in Nat
    <3>1. PICK e : e = <<>>
      OBVIOUS
    <3>2. e \in Seq(FileType) /\ e \in Seq(Int)
      BY <3>1
    <3>3. s_callbacks \in Seq(FileType) /\ levels \in Seq(Int)
      BY <1>0, <3>1, <3>2
    <3>4. s_max_out_verbosity \in Int /\ s_stderr_indentation \in Nat
      <4>1. s_max_out_verbosity = OFF /\ s_stderr_indentation = 0
        BY DEF Init
      <4>2. OFF \in Int /\ 0 \in Nat
        BY DEF OFF
      <4> QED BY <4>1, <4>2
    <3> QED BY <3>3, <3>4
  <2>6. /\ s_flush_thread \in {"none", "polls", "flushes"} /\ s_mutex \in Threads \cup {"free"}
        /\ ended \in {"", "aborted", "exited"}
    BY DEF Init
  <2>7. Len(streams) >= 1
    BY <2>2
  <2> QED BY <2>1, <2>2, <2>3, <2>4, <2>5, <2>6, <2>7 DEF Types
<1>2. \A t \in Threads : th[t].at.pc = "idle" /\ th[t].scopes = <<>>
  BY DEF Init, Idle
<1>4. Holders /\ AddedIsOpen /\ Delivering /\ Ending
  BY <1>2 DEF Holders, AddedIsOpen, Delivering, Ending
<1>5. FilesAreOpen /\ FilesAreApart /\ MaximumIsKnown /\ Everywhere /\ TheLastWordIsWritten
  BY <1>0, <1>3
  DEF FilesAreOpen, FilesAreApart, MaximumIsKnown, Everywhere, TheLastWordIsWritten
<1>6. TextsInOrder
  <2>1. \A f \in DOMAIN streams : streams[f].text = <<>>
    BY <1>3 DEF Stream
  <2> QED BY <2>1 DEF TextsInOrder, InOrder, Below
<1>7. ScopesAreCounted
  <2>1. OpenScopes = {}
    BY <1>2 DEF OpenScopes
  <2>2. Indenting = {}
    BY <2>1 DEF Indenting
  <2>3. s_stderr_indentation = 0
    BY DEF Init
  <2> QED BY <1>3, <2>1, <2>2, <2>3, FS_EmptySet DEF ScopesAreCounted, IndentedByOpenScopes
<1> QED BY <1>1, <1>4, <1>5, <1>6, <1>7 DEF Core

LEMMA CoreStep == ASSUME Core, [Next]_vars PROVE Core'
<1>1. ASSUME NEW t \in Threads, Call(t) \/ EndScope(t) \/ Continue(t)
      PROVE  Core'
  BY <1>1, CallStep, EndScopeStep, CheckStep, EnterStep, DeliverStep, FinishStep,
     AddCallbackStep, MaximumStep, HeaderStep, RemoveAllStep DEF Continue
<1>2. CASE AddFile \/ RemoveCallback
  BY <1>2, AddFileStep, RemoveStepOfMain
<1>3. CASE Shutdown \/ Exit \/ AtExit
  BY <1>3, LeaveStep, AtExitStep
<1>4. CASE Poll \/ FlushThread \/ Rotate
  BY <1>4, OthersStep
<1>5. CASE HasEnded \/ UNCHANGED vars
  BY <1>5, StutterStep DEF HasEnded
<1> QED BY <1>1, <1>2, <1>3, <1>4, <1>5 DEF Next

(* A message is dropped only while the maximum is not known. *)
LEMMA DropStep ==
  ASSUME Core, DropsOnlyInAChange, [Next]_vars PROVE DropsOnlyInAChange'
<1>1. ASSUME NEW t \in Threads, Check(t) PROVE DropsOnlyInAChange'
  <2> DEFINE at == th[t].at
             passes == at.v <= current_verbosity_cutoff
  <2>1. /\ Running
        /\ dropped' = IF passes THEN dropped
                      ELSE dropped \cup {Changing : i \in Wanting(at.v)}
    BY <1>1 DEF Check, At
  <2>2. ASSUME ~ passes, NEW i \in Wanting(at.v) PROVE Changing
    <3>1. /\ i \in DOMAIN s_callbacks /\ at.v <= s_callbacks[i].verbosity
          /\ s_callbacks[i].verbosity \in Int /\ at.v \in Int
          /\ s_max_out_verbosity \in Int /\ g_stderr_verbosity \in Int
      BY CoreTypes, ThreadFields DEF Wanting, Core, Types
    <3>2. ~ (s_callbacks[i].verbosity <= s_max_out_verbosity)
      BY <2>2, <3>1 DEF current_verbosity_cutoff
    <3> QED BY <2>1, <3>1, <3>2 DEF Core, MaximumIsKnown
  <2>3. Changing \in BOOLEAN
    BY DEF Changing
  <2>4. CASE passes
    BY <2>1, <2>4 DEF DropsOnlyInAChange
  <2>5. CASE ~ passes
    <3>1. {Changing : i \in Wanting(at.v)} \subseteq {TRUE}
      BY <2>2, <2>3, <2>5
    <3> QED BY <2>1, <2>5, <3>1 DEF DropsOnlyInAChange
  <2> QED BY <2>4, <2>5
<1>2. ASSUME NEW t \in Threads, Call(t) \/ EndScope(t) PROVE dropped' = dropped
  BY <1>2 DEF Call, EndScope, logging
<1>3. ASSUME NEW t \in Threads, Continue(t), ~ Check(t) PROVE dropped' = dropped
  BY <1>3 DEF Continue, Enter, Deliver, Finish, AddCallback, Maximum, Header,
              RemoveAllCallbacks
<1>4. CASE AddFile \/ RemoveCallback \/ Shutdown \/ Exit \/ AtExit
  BY <1>4 DEF AddFile, RemoveCallback, Shutdown, Exit, AtExit, logging,
              DropsOnlyInAChange
<1>5. CASE Poll \/ FlushThread \/ Rotate \/ HasEnded \/ UNCHANGED vars
  BY <1>5 DEF Poll, FlushThread, Rotate, HasEnded, vars, DropsOnlyInAChange
<1> QED BY <1>1, <1>2, <1>3, <1>4, <1>5 DEF Next, DropsOnlyInAChange

(* A closed stream is used only by add_file and by the flush after a note. *)
LEMMA MisuseStep ==
  ASSUME Core, ClosedOnlyThere, [Next]_vars PROVE ClosedOnlyThere'
<1>0. ASSUME UNCHANGED <<settings, misuse>> PROVE ClosedOnlyThere'
  BY <1>0 DEF ClosedOnlyThere, Buffered, settings
<1>1. ASSUME NEW t \in Threads, Deliver(t) PROVE ClosedOnlyThere'
  <2>1. UNCHANGED settings
    BY <1>1 DEF Deliver
  <2>2. CASE ~ (th[t].at.v <= s_callbacks[th[t].at.i].verbosity)
    BY <1>0, <1>1, <2>1, <2>2 DEF Deliver
  <2>3. CASE th[t].at.v <= s_callbacks[th[t].at.i].verbosity
    <3>1. PICK i, c, m, n, d :
            /\ i = th[t].at.i /\ c = s_callbacks[i] /\ m = th[t].at.file
            /\ n = Len(streams) /\ d = s_callbacks'[i]
      OBVIOUS
    <3>2. Taken(i, c, m, n, d)
      BY <1>1, <2>3, <3>1, TakenBy
    <3>3. misuse' = misuse \/ (~ Buffered /\ misuse' = misuse \cup {"file_flush"})
      BY <3>2 DEF Taken
    <3> QED BY <2>1, <3>3 DEF ClosedOnlyThere, Buffered, settings
  <2> QED BY <2>2, <2>3
<1>2. ASSUME NEW t \in Threads, Header(t) PROVE ClosedOnlyThere'
  <2>1. UNCHANGED settings /\ misuse' \in {misuse, misuse \cup {"add_file"}}
    BY <1>2 DEF Header
  <2> QED BY <2>1 DEF ClosedOnlyThere, Buffered, settings
<1>3. ASSUME NEW t \in Threads, Call(t) \/ EndScope(t)
      PROVE  UNCHANGED <<settings, misuse>>
  BY <1>3 DEF Call, EndScope, logging
<1>4. ASSUME NEW t \in Threads, Continue(t), ~ Deliver(t), ~ Header(t)
      PROVE  UNCHANGED <<settings, misuse>>
  BY <1>4 DEF Continue, Check, Enter, Finish, AddCallback, Maximum, RemoveAllCallbacks
<1>5. CASE AddFile \/ RemoveCallback \/ Shutdown \/ Exit \/ AtExit
  BY <1>0, <1>5 DEF AddFile, RemoveCallback, Shutdown, Exit, AtExit, logging
<1>6. CASE Poll \/ FlushThread \/ Rotate \/ HasEnded \/ UNCHANGED vars
  BY <1>0, <1>6 DEF Poll, FlushThread, Rotate, HasEnded, vars
<1> QED BY <1>0, <1>1, <1>2, <1>3, <1>4, <1>5, <1>6 DEF Next

-----------------------------------------------------------------------------
(***************************************************************************)
(* The inductive invariant holds in every state: whoever delivers a        *)
(* message or changes the files has the mutex of log_message, every        *)
(* registered file has an open stream of its own, no file has a message    *)
(* before its turn, and what has not arrived is in delivery.               *)
(***************************************************************************)
THEOREM IInvHolds == Spec => []IInv
<1>1. Init => IInv
  BY CoreAtFirst DEF IInv, Init, DropsOnlyInAChange, ClosedOnlyThere
<1>2. IInv /\ [Next]_vars => IInv'
  BY CoreStep, DropStep, MisuseStep DEF IInv
<1> QED BY <1>1, <1>2, PTL DEF Spec

LEMMA TypesOfCore == ASSUME Core PROVE TypeOK
<1>1. /\ s_mutex \in Threads \cup {"free"} /\ s_flush_thread \in {"none", "polls", "flushes"}
      /\ ended \in {"", "aborted", "exited"}
      /\ \A t \in Threads : th[t].at.pc \in {"deliver", "maximum"} => s_mutex = t
  BY DEF Core, Types, Holders
<1>2. \A i \in DOMAIN s_callbacks : s_callbacks[i].fp \in {0} \cup DOMAIN streams
  BY CoreTypes
<1>3. ASSUME NEW f \in DOMAIN streams PROVE streams[f].flushed \in 0 .. Len(streams[f].text)
  BY CoreTypes, StreamFields
<1> QED BY <1>1, <1>2, <1>3 DEF TypeOK

(***************************************************************************)
(* Types: a file has a stream or none, no stream is flushed beyond its     *)
(* end, and who delivers a message or changes the files has the mutex.     *)
(***************************************************************************)
THEOREM TypeCorrect == Spec => []TypeOK
<1>1. IInv => TypeOK
  BY TypesOfCore DEF IInv
<1> QED BY <1>1, IInvHolds, PTL

(***************************************************************************)
(* Every stream has the messages of all threads in the one order in which  *)
(* log_message took the mutex for them, whatever other threads do.         *)
(***************************************************************************)
THEOREM MessagesAreInOneOrder == Spec => []OneOrder
<1>1. IInv => OneOrder
  BY DEF IInv, Core, TextsInOrder, InOrder, OneOrder
<1> QED BY <1>1, IInvHolds, PTL

(***************************************************************************)
(* Outside of its delivery a message is in every file that was registered  *)
(* for it by then, through reopened streams too, or is recorded as lost to *)
(* a file that could not be opened again.                                  *)
(***************************************************************************)
THEOREM MessagesArrive == Spec => []EveryFileHasIt
<1>1. IInv => EveryFileHasIt
  <2>1. SUFFICES ASSUME IInv, NEW k \in DOMAIN s_callbacks,
                        NEW m \in s_callbacks[k].since + 1 .. Len(levels),
                        levels[m] <= s_callbacks[k].verbosity, ~ InDelivery(m)
                 PROVE  Arrived(s_callbacks[k].path, m)
    BY DEF EveryFileHasIt, Arrived
  <2>2. m \in Nat
    <3>1. s_callbacks[k].since \in Nat /\ Len(levels) \in Nat
      BY <2>1, CoreTypes, FileFields DEF IInv
    <3> QED BY <2>1, <3>1
  <2>3. ~ OnItsWay(k, m)
    BY <2>1 DEF OnItsWay, InDelivery
  <2> QED BY <2>1, <2>2, <2>3 DEF IInv, Core, Everywhere, Wanted
<1> QED BY <1>1, IInvHolds, PTL

(***************************************************************************)
(* The unlocked check of the macros drops a message that a file wants only *)
(* between the two writes of on_callback_change.                           *)
(***************************************************************************)
THEOREM DropsOnlyWhileFilesChange == Spec => []DropsOnlyInAChange
<1>1. IInv => DropsOnlyInAChange
  BY DEF IInv
<1> QED BY <1>1, IInvHolds, PTL

(***************************************************************************)
(* A closed stream is used only by add_file after its mutex is released,   *)
(* and, without a flush interval, by the flush after the messages about a  *)
(* file that is being reopened.                                            *)
(***************************************************************************)
THEOREM ClosedStreamsAreUsedOnlyThere == Spec => []ClosedOnlyThere
<1>1. IInv => ClosedOnlyThere
  BY DEF IInv
<1> QED BY <1>1, IInvHolds, PTL

(***************************************************************************)
(* The indentation of stderr is the number of open scopes that indent it,  *)
(* and that of a file is at most that of the scopes that reach it, with    *)
(* scopes of all threads and files added inside them.                      *)
(***************************************************************************)
THEOREM IndentationIsOfOpenScopes == Spec => []IndentedByOpenScopes
<1>1. IInv => IndentedByOpenScopes
  BY DEF IInv, Core, ScopesAreCounted
<1> QED BY <1>1, IInvHolds, PTL

(***************************************************************************)
(* At the end every registered file is flushed, and when ABORT_F has ended *)
(* the program the last message is in each of them.                        *)
(***************************************************************************)
THEOREM LastWordIsWritten == Spec => []TheLastWordIsWritten
<1>1. IInv => TheLastWordIsWritten
  BY DEF IInv, Core
<1> QED BY <1>1, IInvHolds, PTL

=============================================================================
