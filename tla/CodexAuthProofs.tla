--------------------------- MODULE CodexAuthProofs ---------------------------
(***************************************************************************)
(* The login for any bundles, profiles and device logins, any number of    *)
(* requests and of failures: a gateway that runs finds one login in all    *)
(* the places, the status is true, versions and markers are earned.        *)
(***************************************************************************)
EXTENDS CodexAuth, SequenceTheorems, TLAPS

(* What the places hold.                                                    *)
CliState == [tokens : Bundle \cup {None}, mode : {"chatgpt", "apikey", "none"}, key : BOOLEAN]
Disk == [shared : Bundle \cup {None}, agent : Bundle \cup {None}, runtime : Bundle \cup {None},
         config : Config, cli : CliState, sessions : Profile \cup {None}, sync : Marker \cup {None}]

(* A request that an action made: what it asks for is given, and a device   *)
(* login asks for the bundle that it got.                                   *)
Fits(r) ==
    /\ r.kind \in {"import", "sync", "login"} => r.bundle \in Bundle
    /\ r.kind \in {"clear", "openai", "apikey"} => r.bundle = None
    /\ r.kind = "sync" => r.version \in 1..MaxVersion
    /\ r.kind = "login" => /\ r.login \in Login /\ got[r.login] = r.bundle
                           /\ login[r.login] \notin {"new", "asking", "polling"}

RequestInv == Fits(op.req) /\ \A i \in DOMAIN queue : Fits(queue[i])

Between == {"idle", "stop", "begin", "start"}      \* before the first write, after the last
Writing == {"write", "rewrite"}

StepInv ==
    /\ op.at \in Writing => op.i \in 1..Len(Order(op.req.kind))
    /\ op.at = "rewrite" => Place = "config"
    /\ op.at = "undo" => op.req.kind \in Guarded
    /\ op.at \in Writing /\ op.req.kind = "sync" /\ op.i = 8 => disk.sync \in Marker

Quiet == torn \subseteq {"marker"}

(* What will be left of the reasons when the mutation is complete.          *)
Unsettled == torn \ (op.carry \cap Settles(op.req.kind))

AgreedIn(d) ==
    /\ d.shared = d.runtime /\ d.agent = d.runtime /\ d.config.auth = d.runtime
    /\ d.cli.mode = "chatgpt" => d.cli.tokens = d.runtime
    /\ d.sessions # None => d.sessions = ProfileIn(d.runtime)

SameLogin(d, e) ==
    d.shared = e.shared /\ d.agent = e.agent /\ d.runtime = e.runtime /\ d.config.auth = e.config.auth

(* A gateway that is up while the places are written has been started in    *)
(* between.                                                                 *)
GatewayInv ==
    gateway = "up" => IF op.at \in {"idle", "stop", "start"}
                      THEN Quiet => cache = ProfileIn(disk.runtime)
                      ELSE "started" \in torn \ op.carry

Logins == {"shared", "agent", "runtime", "config", "sessions", "cli"}
Written(p) == \E j \in 1..op.i - 1 : Order(op.req.kind)[j] = p
DoneIn(d, p, b) ==
    CASE p \in {"shared", "agent", "runtime"} -> d[p] = b
      [] p = "config" -> d.config.auth = b
      [] p = "sessions" -> d.sessions \in {None, ProfileIn(b)}
      [] OTHER -> d.cli.mode = "chatgpt" => d.cli.tokens = b

Rewrites == {"import", "sync", "login", "clear"}    \* mutations that write every place

AgreeInv ==
    /\ op.at \in Between /\ Quiet => AgreedIn(disk)
    /\ op.at \in Writing \cup {"undo"} /\ op.req.kind \in Guarded /\ Quiet => AgreedIn(snap)
    /\ op.at \in Writing \cup {"undo"} /\ op.req.kind \in Guarded \ Rewrites /\ Quiet =>
         AgreedIn(disk) /\ SameLogin(disk, snap)
    /\ op.at \in Writing /\ op.req.kind \in Rewrites /\ Unsettled \subseteq {"marker"} =>
         \A p \in Logins : Written(p) => DoneIn(disk, p, op.req.bundle)

Told == pending # None /\ login[pending] = "connected" /\ Quiet /\ ~late
StatusInv ==
    /\ op.at \in Between /\ Told => disk.runtime = got[pending]
    /\ op.at \in Writing \cup {"undo"} /\ op.req.kind \in Guarded /\ Told => snap.runtime = got[pending]
    /\ op.at = "start" /\ op.ok /\ op.req.kind = "login" /\ pending = op.req.login /\ Quiet /\ ~late =>
         disk.runtime = op.req.bundle

SavedIn(d) == IF d.runtime # None THEN d.runtime ELSE IF d.shared # None THEN d.shared ELSE d.agent
Known(d, r) ==
    /\ d.sync # None /\ SavedIn(d) # None
    /\ d.sync.profile = ProfileOf[r.bundle] /\ d.sync.version >= r.version
    /\ ProfileIn(SavedIn(d)) = d.sync.profile
VersionInv ==
    op.at \in Writing /\ op.req.kind = "sync" =>
       ~Known(snap, op.req) /\ (op.i <= 7 => disk.sync = snap.sync)

MarkerInv ==
    "marker" \notin torn =>
       /\ op.at \in Between \/ op.req.kind # "sync" => disk.sync \in synced \cup {None}
       /\ op.at \in Writing \cup {"undo"} /\ op.req.kind = "sync" => snap.sync \in synced \cup {None}

OpType == [at : Between \cup Writing \cup {"undo"}, i : 0..9, ok : BOOLEAN, carry : SUBSET Reasons, req : Request]
Status == Waiting \cup {"new", "connected", "failed", "gone"}

PlaceTypes == disk \in Disk /\ snap \in Disk /\ seen \in Config /\ copy \in Config
OpTypes == op \in OpType /\ queue \in Seq(Request)
LoginTypes ==
    login \in [Login -> Status] /\ got \in [Login -> Bundle \cup {None}] /\ pending \in Login \cup {None}
OtherTypes ==
    /\ model \in {"idle", "read", "written"} /\ gateway \in {"up", "down"} /\ cache \in Profile \cup {None}
    /\ requests \in 0..MaxRequests /\ trouble \in 0..MaxTrouble
    /\ torn \subseteq Reasons /\ synced \subseteq Marker
FlagTypes == late \in BOOLEAN /\ abandoned \in BOOLEAN

Types == PlaceTypes /\ OpTypes /\ LoginTypes /\ OtherTypes /\ FlagTypes
Base == Types /\ RequestInv /\ StepInv
IInv == Base /\ GatewayInv /\ AgreeInv /\ StatusInv /\ VersionInv /\ MarkerInv

LEMMA Constants ==
    /\ ProfileOf \in [Bundle -> Profile] /\ EnvKey \in BOOLEAN
    /\ MaxVersion \in Nat \ {0} /\ MaxRequests \in Nat /\ MaxTrouble \in Nat
    /\ None \notin Bundle /\ None \notin Profile /\ None \notin Login
BY CodexAssumption

LEMMA OrderIs ==
    ASSUME NEW k \in Kinds
    PROVE  /\ Len(Order(k)) \in 1..8
           /\ \A j \in 1..Len(Order(k)) : Order(k)[j] \in Logins \cup {"sync", "check"}
           /\ k \in Rewrites => \A p \in Logins : \E j \in 1..Len(Order(k)) : Order(k)[j] = p
           /\ k \notin Rewrites => \A j \in 1..Len(Order(k)) : Order(k)[j] \in {"cli", "sessions", "check"}
           /\ \A j \in 1..Len(Order(k)) :
                Order(k)[j] = "sync" <=> j = 7 /\ k \in {"sync", "clear"}
           /\ k = "clear" => Len(Order(k)) = 7
           /\ k = "sync" => Len(Order(k)) = 8
<1>1. CASE k = "login"
  <2>1. Order(k) = <<"shared", "agent", "runtime", "config", "sessions", "cli">>
    BY <1>1 DEF Order
  <2>2. /\ Len(Order(k)) = 6 /\ Order(k)[1] = "shared" /\ Order(k)[2] = "agent" /\ Order(k)[3] = "runtime"
        /\ Order(k)[4] = "config" /\ Order(k)[5] = "sessions" /\ Order(k)[6] = "cli"
    BY <2>1
  <2> QED
    BY <1>1, <2>2 DEF Logins, Rewrites
<1>2. CASE k = "import"
  <2>1. Order(k) = <<"shared", "agent", "runtime", "config", "sessions", "cli", "check">>
    BY <1>2 DEF Order
  <2>2. /\ Len(Order(k)) = 7 /\ Order(k)[1] = "shared" /\ Order(k)[2] = "agent" /\ Order(k)[3] = "runtime"
        /\ Order(k)[4] = "config" /\ Order(k)[5] = "sessions" /\ Order(k)[6] = "cli" /\ Order(k)[7] = "check"
    BY <2>1
  <2> QED
    BY <1>2, <2>2 DEF Logins, Rewrites
<1>3. CASE k = "sync"
  <2>1. Order(k) = <<"shared", "agent", "runtime", "config", "sessions", "cli", "sync", "check">>
    BY <1>3 DEF Order
  <2>2. /\ Len(Order(k)) = 8 /\ Order(k)[1] = "shared" /\ Order(k)[2] = "agent" /\ Order(k)[3] = "runtime"
        /\ Order(k)[4] = "config" /\ Order(k)[5] = "sessions" /\ Order(k)[6] = "cli" /\ Order(k)[7] = "sync"
        /\ Order(k)[8] = "check"
    BY <2>1
  <2> QED
    BY <1>3, <2>2 DEF Logins, Rewrites
<1>4. CASE k = "clear"
  <2>1. Order(k) = <<"shared", "agent", "runtime", "config", "cli", "sessions", "sync">>
    BY <1>4 DEF Order
  <2>2. /\ Len(Order(k)) = 7 /\ Order(k)[1] = "shared" /\ Order(k)[2] = "agent" /\ Order(k)[3] = "runtime"
        /\ Order(k)[4] = "config" /\ Order(k)[5] = "cli" /\ Order(k)[6] = "sessions" /\ Order(k)[7] = "sync"
    BY <2>1
  <2> QED
    BY <1>4, <2>2 DEF Logins, Rewrites
<1>5. CASE k \in {"openai", "apikey"}
  <2>1. Order(k) = <<"cli", "sessions", "check">>
    BY <1>5 DEF Order
  <2>2. Len(Order(k)) = 3 /\ Order(k)[1] = "cli" /\ Order(k)[2] = "sessions" /\ Order(k)[3] = "check"
    BY <2>1
  <2> QED
    BY <1>5, <2>2 DEF Logins, Rewrites
<1> QED
  BY <1>1, <1>2, <1>3, <1>4, <1>5 DEF Kinds

(* What a rollback restores.                                                *)
LEMMA KeptIs ==
    ASSUME NEW k \in Guarded
    PROVE  /\ k \in Rewrites => Logins \subseteq Range(Kept(k))
           /\ k \notin Rewrites => Range(Kept(k)) = {"cli", "sessions"}
           /\ "sync" \in Range(Kept(k)) <=> k = "sync"
<1>1. CASE k = "import"
  <2>1. Kept(k) = <<"config", "shared", "agent", "sessions", "cli", "runtime">>
    BY <1>1 DEF Kept
  <2>2. Range(Kept(k)) = {"config", "shared", "agent", "sessions", "cli", "runtime"}
    BY <2>1 DEF Range
  <2> QED
    BY <1>1, <2>2 DEF Logins, Rewrites
<1>2. CASE k = "sync"
  <2>1. Kept(k) = <<"config", "shared", "agent", "sessions", "cli", "sync", "runtime">>
    BY <1>2 DEF Kept
  <2>2. Range(Kept(k)) = {"config", "shared", "agent", "sessions", "cli", "sync", "runtime"}
    BY <2>1 DEF Range
  <2> QED
    BY <1>2, <2>2 DEF Logins, Rewrites
<1>3. CASE k \in {"openai", "apikey"}
  <2>1. Kept(k) = <<"cli", "sessions">>
    BY <1>3 DEF Kept
  <2>2. Range(Kept(k)) = {"cli", "sessions"}
    BY <2>1 DEF Range
  <2> QED
    BY <1>3, <2>2 DEF Rewrites
<1> QED
  BY <1>1, <1>2, <1>3 DEF Guarded

LEMMA RestoredIs ==
    ASSUME disk \in Disk, snap \in Disk, NEW P, NEW d, d = Restored(P)
    PROVE  /\ d \in Disk
           /\ d.shared = IF "shared" \in P THEN snap.shared ELSE disk.shared
           /\ d.agent = IF "agent" \in P THEN snap.agent ELSE disk.agent
           /\ d.runtime = IF "runtime" \in P THEN snap.runtime ELSE disk.runtime
           /\ d.config = IF "config" \in P THEN snap.config ELSE disk.config
           /\ d.cli = IF "cli" \in P THEN snap.cli ELSE disk.cli
           /\ d.sessions = IF "sessions" \in P THEN snap.sessions ELSE disk.sessions
           /\ d.sync = IF "sync" \in P THEN snap.sync ELSE disk.sync
BY DEF Disk, Restored

LEMMA WithIs ==
    ASSUME Types, NEW r \in Request, Fits(r), NEW p \in Logins \cup {"sync", "check"},
           p = "sync" => r.kind \in {"sync", "clear"}, NEW d, d = With(r, p)
    PROVE  /\ d \in Disk
           /\ d.shared = IF p = "shared" THEN r.bundle ELSE disk.shared
           /\ d.agent = IF p = "agent" THEN r.bundle ELSE disk.agent
           /\ d.runtime = IF p = "runtime" THEN r.bundle ELSE disk.runtime
           /\ d.config.auth = IF p = "config" THEN r.bundle ELSE disk.config.auth
           /\ d.cli = IF p = "cli" THEN CliWith(r) ELSE disk.cli
           /\ d.sessions = IF p = "sessions" THEN Pin(r.bundle) ELSE disk.sessions
           /\ p # "sync" => d.sync = disk.sync
           /\ p = "sync" /\ r.kind = "clear" => d.sync = None
           /\ p = "sync" /\ r.kind = "sync" =>
                d.sync \in Marker /\ d.sync.version = r.version /\ d.sync.profile = ProfileOf[r.bundle]
<1>1. r.bundle \in Bundle \cup {None} /\ r.kind \in Kinds
  BY DEF Request
<1>2. disk \in Disk /\ seen \in Config
  BY DEF Types, PlaceTypes
<1>3. [seen EXCEPT !.auth = r.bundle] \in Config /\ [seen EXCEPT !.auth = r.bundle].auth = r.bundle
  BY <1>1, <1>2 DEF Config
<1>4. Pin(r.bundle) \in Profile \cup {None}
  BY <1>1, Constants DEF Pin, ProfileIn
<1>5. Saved \in Bundle \cup {None}
  BY <1>2 DEF Saved, Disk
<1>6. CliWith(r) \in CliState
  <2>1. disk.cli \in CliState
    BY <1>2 DEF Disk
  <2> QED
    BY <1>1, <1>5, <2>1 DEF CliWith, CliState, Kinds
<1>7. p = "sync" /\ r.kind # "clear" => [version |-> r.version, profile |-> ProfileOf[r.bundle]] \in Marker
  BY Constants DEF Fits, Marker
<1>8. CASE p \in {"shared", "agent", "runtime"}
  BY <1>1, <1>2, <1>8 DEF With, Disk
<1>9. CASE p = "config"
  BY <1>2, <1>3, <1>9 DEF With, Disk
<1>10. CASE p = "sessions"
  BY <1>2, <1>4, <1>10 DEF With, Disk
<1>11. CASE p = "cli"
  BY <1>2, <1>6, <1>11 DEF With, Disk
<1>12. CASE p = "check"
  BY <1>2, <1>12 DEF With, Disk
<1>13. CASE p = "sync"
  BY <1>2, <1>7, <1>13 DEF With, Disk
<1> QED
  BY <1>8, <1>9, <1>10, <1>11, <1>12, <1>13 DEF Logins

LEMMA NoOpIs ==
    /\ NoOp \in OpType /\ NoOp.at = "idle" /\ NoOp.req.kind = "clear" /\ NoOp.req.bundle = None
    /\ NoDisk \in Disk /\ NoConfig \in Config
<1>1. NoOp \in OpType
  BY Constants DEF NoOp, OpType, Request, Kinds, Between, Writing, Reasons
<1> QED
  BY <1>1 DEF NoOp, NoDisk, NoConfig, Disk, CliState, Config

LEMMA InitIInv == Init => IInv
<1> SUFFICES ASSUME Init PROVE IInv
  OBVIOUS
<1> DEFINE Good == /\ disk \in Disk /\ AgreedIn(disk) /\ synced \in SUBSET Marker
                   /\ disk.sync \in synced \cup {None}
                   /\ cache \in Profile \cup {None} /\ cache = ProfileIn(disk.runtime)
<1>0. /\ queue = <<>> /\ op = NoOp /\ snap = NoDisk /\ seen = NoConfig
      /\ model = "idle" /\ copy = NoConfig /\ gateway = "up"
      /\ requests = MaxRequests /\ trouble = MaxTrouble /\ torn = {}
  BY Zenon DEF Init
<1>1. Good
  <2>1. ASSUME NEW key \in BOOLEAN, cache = None, synced = {},
               disk = [NoDisk EXCEPT !.cli.key = key, !.cli.mode = IF key THEN "apikey" ELSE "none"]
        PROVE  Good
    <3>1. disk = [shared |-> None, agent |-> None, runtime |-> None, config |-> NoConfig,
                  cli |-> [tokens |-> None, mode |-> IF key THEN "apikey" ELSE "none", key |-> key],
                  sessions |-> None, sync |-> None]
      BY <2>1 DEF NoDisk
    <3>2. NoConfig \in Config /\ NoConfig.auth = None
      BY DEF NoConfig, Config
    <3>3. disk \in Disk /\ AgreedIn(disk) /\ disk.sync = None /\ disk.runtime = None
      <4>1. (IF key THEN "apikey" ELSE "none") \in {"chatgpt", "apikey", "none"} \ {"chatgpt"}
        OBVIOUS
      <4> QED
        BY <3>1, <3>2, <4>1 DEF Disk, CliState, AgreedIn
    <3> QED
      BY <2>1, <3>3 DEF ProfileIn
  <2>2. ASSUME NEW b \in Bundle, cache = ProfileOf[b], synced = {disk.sync},
               disk = [shared |-> b, agent |-> b, runtime |-> b, config |-> [model |-> FALSE, auth |-> b],
                       cli |-> [tokens |-> b, mode |-> "chatgpt", key |-> FALSE],
                       sessions |-> ProfileOf[b], sync |-> [version |-> 1, profile |-> ProfileOf[b]]]
        PROVE  Good
    BY <2>2, Constants DEF Disk, CliState, Config, Marker, AgreedIn, ProfileIn
  <2> QED
    BY <2>1, <2>2 DEF Init
<1>2. NoDisk \in Disk /\ NoConfig \in Config
  BY NoOpIs
<1>3. NoOp \in OpType
  BY NoOpIs
<1>4. Types
  <2>1. PlaceTypes
    BY <1>1, <1>2 DEF Init, PlaceTypes
  <2>2. OpTypes
    BY <1>0, <1>3 DEF OpTypes
  <2>3. LoginTypes
    BY DEF Init, LoginTypes, Status
  <2>4. OtherTypes
    BY <1>0, <1>1, Constants DEF OtherTypes
  <2> QED
    BY <2>1, <2>2, <2>3, <2>4 DEF Init, Types, FlagTypes
<1>5. op.at = "idle" /\ op.req.kind = "clear" /\ op.req.bundle = None
  BY <1>0, NoOpIs
<1>6. RequestInv /\ StepInv
  <2>1. Fits(op.req)
    BY <1>5 DEF Fits
  <2>2. queue = <<>> /\ DOMAIN queue = {}
    BY <1>0
  <2> QED
    BY <1>5, <2>1, <2>2 DEF RequestInv, StepInv, Writing
<1>7. GatewayInv /\ AgreeInv /\ StatusInv /\ VersionInv /\ MarkerInv
  BY <1>1, <1>5 DEF Init, GatewayInv, AgreeInv, StatusInv, VersionInv, MarkerInv, Between, Writing, Told
<1> QED
  BY <1>4, <1>6, <1>7 DEF IInv, Base

(* Requests and device logins touch neither the places nor the mutation.    *)
LEMMA Unmoved ==
    ASSUME UNCHANGED <<disk, op, snap, gateway, cache, torn, synced>>,
           GatewayInv, AgreeInv, VersionInv, MarkerInv
    PROVE  GatewayInv' /\ AgreeInv' /\ VersionInv' /\ MarkerInv'
<1>1. GatewayInv'
  BY DEF GatewayInv, Quiet
<1>2. AgreeInv'
  BY DEF AgreeInv, Quiet, Unsettled, Written
<1>3. VersionInv' /\ MarkerInv'
  BY DEF VersionInv, MarkerInv
<1> QED
  BY <1>1, <1>2, <1>3

(* A step that leaves the op and the places: the steps of op stay legal.    *)
LEMMA SameStep ==
    ASSUME StepInv, op' = op, disk'.sync = disk.sync PROVE StepInv'
BY DEF StepInv, Place

LEMMA Appended ==
    ASSUME NEW q \in Seq(Request), NEW r \in Request, NEW p, p = Append(q, r)
    PROVE  /\ p \in Seq(Request)
           /\ \A i \in DOMAIN p : p[i] = r \/ (i \in DOMAIN q /\ p[i] = q[i])
<1>1. /\ Len(q) \in Nat /\ p \in Seq(Request) /\ Len(p) = Len(q) + 1
      /\ \A i \in 1..Len(q) : p[i] = q[i]
  BY AppendProperties, LenProperties
<1>2. DOMAIN q = 1..Len(q) /\ DOMAIN p = 1..Len(q) + 1
  BY <1>1, LenProperties
<1>3. p[Len(q) + 1] = r
  BY AppendProperties
<1>4. ASSUME NEW i \in DOMAIN p PROVE p[i] = r \/ (i \in DOMAIN q /\ p[i] = q[i])
  <2>1. i \in 1..Len(q) \/ i = Len(q) + 1
    BY ONLY <1>1, <1>2, i \in DOMAIN p
  <2>2. CASE i \in 1..Len(q)
    BY ONLY <1>1, <1>2, <2>2
  <2> QED
    BY ONLY <1>3, <2>1, <2>2
<1> QED
  BY ONLY <1>1, <1>4

LEMMA AsksKeeps ==
    ASSUME IInv, NEW r \in Request, Fits(r), r.kind # "login", Asks(r), trouble' = trouble
    PROVE  IInv'
<1> USE DEF IInv, Base
<1>1. /\ requests \in Nat \ {0} /\ requests' = requests - 1 /\ queue' = Append(queue, r)
      /\ UNCHANGED <<disk, op, snap, seen, login, got, pending, model, copy, gateway, cache, trouble, torn,
                     late, abandoned, synced>>
  BY Constants DEF Asks, loginVars, modelVars, gwVars, history, Types, OtherTypes
<1>2. queue \in Seq(Request)
  BY DEF Types, OpTypes
<1>3. Types'
  <2>1. queue' \in Seq(Request)
    BY <1>1, <1>2, Appended
  <2>2. OtherTypes'
    BY <1>1, Constants DEF Types, OtherTypes
  <2> QED
    BY <1>1, <2>1, <2>2 DEF Types, PlaceTypes, OpTypes, LoginTypes, FlagTypes
<1>4. RequestInv'
  <2>1. \A x : Fits(x) => Fits(x)'
    BY <1>1 DEF Fits
  <2>2. \A i \in DOMAIN queue' : queue'[i] = r \/ (i \in DOMAIN queue /\ queue'[i] = queue[i])
    BY <1>1, <1>2, Appended
  <2> QED
    BY <1>1, <2>1, <2>2 DEF RequestInv
<1>5. StepInv'
  BY <1>1, SameStep
<1>6. StatusInv'
  BY <1>1 DEF StatusInv, Told, Quiet
<1> QED
  BY <1>1, <1>3, <1>4, <1>5, <1>6, Unmoved

(* A session that is not connected, and is not the one of the mutation.     *)
LEMMA LoginsKeep ==
    ASSUME IInv, NEW l \in Login,
           StartLogin(l) \/ CodeGiven(l) \/ LoginFails(l) \/ \E b \in Bundle : Authorized(l, b)
    PROVE  IInv'
<1> USE DEF IInv, Base
<1> DEFINE Moves(s) ==
        /\ login[l] \in {"new", "asking", "polling"} /\ s # "connected"
        /\ login' = [login EXCEPT ![l] = s]
        /\ s \in {"new", "asking", "polling"} => login[l] # s
        /\ UNCHANGED <<disk, op, snap, seen, model, copy, gateway, cache, trouble, torn, late, abandoned, synced>>
        /\ requests' \in 0..MaxRequests
        /\ pending' \in {l, pending}
        /\ \/ UNCHANGED <<queue, got>>
           \/ \E b \in Bundle :
                /\ got' = [got EXCEPT ![l] = b] /\ s = "queued"
                /\ queue' = Append(queue, [login |-> l, kind |-> "login", bundle |-> b, version |-> 0])
<1>1. PICK s \in Status : Moves(s)
  <2> USE DEF opVars, modelVars, gwVars, history, Types, OtherTypes, Status, Waiting
  <2>1. CASE StartLogin(l)
    <3>1. login' = [login EXCEPT ![l] = "asking"]
      BY <2>1 DEF StartLogin
    <3> QED
      BY <2>1, <3>1, Constants DEF StartLogin
  <2>2. CASE CodeGiven(l)
    BY <2>2 DEF CodeGiven
  <2>3. CASE LoginFails(l)
    BY <2>3 DEF LoginFails
  <2>4. ASSUME NEW b \in Bundle, Authorized(l, b) PROVE Moves("queued")
    BY <2>4 DEF Authorized
  <2> QED
    BY <2>1, <2>2, <2>3, <2>4
<1>2. queue \in Seq(Request) /\ op \in OpType /\ LoginTypes
  BY DEF Types, OpTypes
<1>3. \A x \in Request : Fits(x) => Fits(x)'
  BY <1>1, <1>2 DEF Fits, LoginTypes
<1>4. \A b \in Bundle : [login |-> l, kind |-> "login", bundle |-> b, version |-> 0] \in Request
  BY Constants DEF Request, Kinds
<1>5. queue' \in Seq(Request)
  <2>1. ASSUME NEW b \in Bundle,
               queue' = Append(queue, [login |-> l, kind |-> "login", bundle |-> b, version |-> 0])
        PROVE  queue' \in Seq(Request)
    BY <1>2, <1>4, <2>1, Appended
  <2> QED
    BY <1>1, <1>2, <2>1
<1>6. LoginTypes'
  BY <1>1, <1>2 DEF LoginTypes
<1>7. Types'
  BY <1>1, <1>2, <1>5, <1>6, Constants DEF Types, PlaceTypes, OpTypes, OtherTypes, FlagTypes
<1>8. RequestInv'
  <2>1. Fits(op.req)'
    BY <1>1, <1>2, <1>3 DEF RequestInv, OpType
  <2>2. ASSUME NEW i \in DOMAIN queue' PROVE Fits(queue[i])'
    <3>1. CASE i \in DOMAIN queue /\ queue'[i] = queue[i]
      <4>1. queue[i] \in Request
        BY <1>2, <3>1
      <4>2. Fits(queue[i])
        BY <3>1 DEF RequestInv
      <4> QED
        BY <1>3, <3>1, <4>1, <4>2 DEF Fits
    <3>2. ASSUME NEW b \in Bundle, queue'[i] = [login |-> l, kind |-> "login", bundle |-> b, version |-> 0],
                 got' = [got EXCEPT ![l] = b], login'[l] = "queued"
          PROVE  Fits(queue[i])'
      BY <1>2, <3>2 DEF Fits, LoginTypes
    <3>3. s = "queued" => login'[l] = "queued"
      BY <1>1, <1>2 DEF LoginTypes
    <3>4. CASE UNCHANGED queue
      BY <3>1, <3>4
    <3>5. CASE ~UNCHANGED queue
      <4>1. PICK b \in Bundle :
              /\ got' = [got EXCEPT ![l] = b] /\ login'[l] = "queued"
              /\ queue' = Append(queue, [login |-> l, kind |-> "login", bundle |-> b, version |-> 0])
        BY <1>1, <3>3, <3>5
      <4>2. queue'[i] = [login |-> l, kind |-> "login", bundle |-> b, version |-> 0]
            \/ (i \in DOMAIN queue /\ queue'[i] = queue[i])
        BY <1>2, <1>4, <4>1, Appended
      <4> QED
        BY <3>1, <3>2, <4>1, <4>2
    <3> QED
      BY <3>4, <3>5
  <2> QED
    BY <2>1, <2>2 DEF RequestInv
<1>9. StepInv'
  BY <1>1, SameStep
<1>10. StatusInv'
  <2>1. Told' => pending' = pending /\ Told /\ got'[pending] = got[pending]
    BY <1>1, <1>2 DEF Told, Quiet, LoginTypes
  <2>2. op.req.kind = "login" /\ pending' = op.req.login => pending' = pending
    BY <1>1 DEF RequestInv, Fits
  <2> QED
    BY <1>1, <2>1, <2>2 DEF StatusInv, Quiet
<1> QED
  BY <1>1, <1>7, <1>8, <1>9, <1>10, Unmoved

(* A request still fits as long as no session goes back.                    *)
LEMMA StillFits ==
    ASSUME got' = got,
           \A l \in Login : login'[l] \in {"new", "asking", "polling"} => login[l] \in {"new", "asking", "polling"}
    PROVE  \A x : Fits(x) => Fits(x)'
BY DEF Fits

(* Before the first write and after the last: nothing moves but the op.     *)
LEMMA Waits ==
    ASSUME IInv, UNCHANGED <<disk, seen, login, got, pending, model, copy, requests, torn, late, abandoned, synced>>,
           trouble' \in 0..MaxTrouble, gateway' \in {"up", "down"}, cache' \in Profile \cup {None}, snap' \in Disk,
           op' \in OpType, op.at \in Between, op'.at \in Between, GatewayInv',
           op'.at = "start" => ~(op'.ok /\ op'.req.kind = "login"),
           Fits(op'.req), queue' \in Seq(Request), \A i \in DOMAIN queue' : Fits(queue'[i])
    PROVE  IInv'
<1> USE DEF IInv, Base
<1>1. Types'
  BY DEF Types, PlaceTypes, OpTypes, LoginTypes, OtherTypes, FlagTypes
<1>2. RequestInv'
  <2>1. \A x : Fits(x) => Fits(x)'
    BY StillFits
  <2> QED
    BY <2>1 DEF RequestInv, Fits
<1>3. StepInv' /\ VersionInv'
  BY DEF StepInv, VersionInv, Between, Writing
<1>4. AgreeInv' /\ MarkerInv'
  BY DEF AgreeInv, MarkerInv, Between, Writing, Quiet
<1>5. StatusInv'
  BY DEF StatusInv, Between, Writing, Quiet, Told
<1> QED
  BY <1>1, <1>2, <1>3, <1>4, <1>5

LEMMA TakesKeeps == ASSUME IInv, Takes, trouble' = trouble PROVE IInv'
<1> USE DEF IInv, Base
<1>1. /\ op.at = "idle" /\ queue # <<>> /\ queue' = Tail(queue)
      /\ op' = [NoOp EXCEPT !.at = "stop", !.req = Head(queue)]
      /\ UNCHANGED <<disk, snap, seen, login, got, pending, model, copy, gateway, cache, requests, trouble, torn,
                     late, abandoned, synced>>
  BY DEF Takes, loginVars, modelVars, gwVars, history
<1>2. queue \in Seq(Request) /\ Len(queue) \in Nat \ {0} /\ DOMAIN queue = 1..Len(queue)
  BY <1>1, EmptySeq, LenProperties DEF Types, OpTypes
<1>3. /\ queue' \in Seq(Request) /\ DOMAIN queue' = 1..Len(queue) - 1
      /\ \A i \in DOMAIN queue' : i + 1 \in DOMAIN queue /\ queue'[i] = queue[i + 1]
  BY <1>1, <1>2, HeadTailProperties, LenProperties
<1>4. Head(queue) = queue[1] /\ 1 \in DOMAIN queue /\ queue[1] \in Request
  BY <1>1, <1>2
<1>5. op' \in OpType /\ op'.at = "stop" /\ op'.req = queue[1]
  BY <1>1, <1>4, NoOpIs DEF OpType, Between
<1>6. Fits(op'.req) /\ \A i \in DOMAIN queue' : Fits(queue'[i])
  BY <1>3, <1>4, <1>5 DEF RequestInv
<1>7. GatewayInv'
  BY <1>1, <1>5 DEF GatewayInv, Quiet
<1> QED
  BY <1>1, <1>3, <1>5, <1>6, <1>7, Waits DEF Between, Types, PlaceTypes, OtherTypes

LEMMA StopsKeeps == ASSUME IInv, Stops, trouble' = trouble PROVE IInv'
<1> USE DEF IInv, Base
<1>1. /\ op.at = "stop" /\ op' = [op EXCEPT !.at = "begin", !.carry = torn] /\ gateway' = "down" /\ cache' = None
      /\ UNCHANGED <<disk, queue, snap, seen, login, got, pending, model, copy, requests, trouble, torn,
                     late, abandoned, synced>>
  BY DEF Stops, loginVars, modelVars, history
<1>2. op' \in OpType /\ op'.at = "begin" /\ op'.req = op.req
  BY <1>1 DEF Types, OpTypes, OtherTypes, OpType, Between
<1>3. GatewayInv'
  BY <1>1 DEF GatewayInv
<1> QED
  BY <1>1, <1>2, <1>3, Waits DEF Between, Types, PlaceTypes, OpTypes, OtherTypes, RequestInv

LEMMA BeginFailsKeeps == ASSUME IInv, BeginFails, trouble' \in 0..MaxTrouble PROVE IInv'
<1> USE DEF IInv, Base
<1>1. /\ op.at = "begin" /\ op' = [op EXCEPT !.at = "start", !.ok = FALSE, !.carry = {}]
      /\ UNCHANGED <<disk, queue, snap, seen, login, got, pending, model, copy, gateway, cache, requests, torn,
                     late, abandoned, synced>>
  BY DEF BeginFails, loginVars, modelVars, gwVars, history
<1>2. op' \in OpType /\ op'.at = "start" /\ op'.req = op.req /\ op'.ok = FALSE
  BY <1>1 DEF Types, OpTypes, OtherTypes, OpType, Between
<1>3. GatewayInv'
  BY <1>1, <1>2 DEF GatewayInv, Quiet
<1> QED
  BY <1>1, <1>2, <1>3, Waits DEF Between, Types, PlaceTypes, OpTypes, OtherTypes, RequestInv

(* The end of a mutation.                                                   *)
LEMMA EndsKeeps ==
    ASSUME IInv, NEW ok \in BOOLEAN, Ends(ok), op.at \in {"stop", "start"}, ok => op.at = "start" /\ op.ok,
           UNCHANGED <<disk, queue, got, pending, model, copy, requests, torn, late, synced>>,
           trouble' \in 0..MaxTrouble, gateway' \in {"up", "down"}, cache' \in Profile \cup {None},
           abandoned' \in BOOLEAN, gateway' = "up" /\ Quiet => cache' = ProfileIn(disk.runtime)
    PROVE  IInv'
<1> USE DEF IInv, Base
<1> DEFINE final == IF ok THEN "connected" ELSE "failed"
<1>1. /\ op' = NoOp /\ snap' = NoDisk /\ seen' = NoConfig
      /\ login' = IF op.req.kind = "login" THEN [login EXCEPT ![op.req.login] = final] ELSE login
  BY DEF Ends
<1>2. op'.at = "idle" /\ op'.req.kind = "clear" /\ op'.req.bundle = None
  BY <1>1, NoOpIs
<1>3. LoginTypes /\ op.req.kind \in Kinds
  BY DEF Types, OpTypes, OpType, Request
<1>4. login' \in [Login -> Status]
      /\ \A l \in Login : \/ login'[l] = login[l]
                          \/ op.req.kind = "login" /\ l = op.req.login /\ login'[l] = final
  BY <1>1, <1>3 DEF LoginTypes, Status, RequestInv, Fits
<1>5. Types'
  BY <1>1, <1>4, NoOpIs DEF Types, PlaceTypes, OpTypes, LoginTypes, OtherTypes, FlagTypes
<1>6. RequestInv'
  <2>1. \A x : Fits(x) => Fits(x)'
    BY <1>4, StillFits
  <2>2. Fits(op.req)'
    BY <1>2 DEF Fits
  <2> QED
    BY <2>1, <2>2 DEF RequestInv, Fits
<1>7. StepInv' /\ VersionInv'
  BY <1>2 DEF StepInv, VersionInv, Writing
<1>8. GatewayInv'
  BY <1>2 DEF GatewayInv, Quiet
<1>9. AgreeInv' /\ MarkerInv'
  BY <1>2 DEF AgreeInv, MarkerInv, Between, Writing, Quiet
<1>10. StatusInv'
  <2> SUFFICES ASSUME Told' PROVE disk.runtime = got[pending]
    BY <1>2 DEF StatusInv, Writing
  <2>1. pending \in Login /\ login'[pending] = "connected" /\ Quiet /\ ~late
    BY <1>3 DEF Told, Quiet, LoginTypes
  <2>2. CASE login'[pending] = login[pending]
    BY <2>1, <2>2 DEF StatusInv, Told, Between
  <2>3. CASE op.req.kind = "login" /\ pending = op.req.login /\ login'[pending] = final
    BY <2>1, <2>3 DEF StatusInv, RequestInv, Fits
  <2> QED
    BY <1>4, <2>1, <2>2, <2>3
<1> QED
  BY <1>5, <1>6, <1>7, <1>8, <1>9, <1>10

LEMMA StopOrStartKeeps ==
    ASSUME IInv, \/ Starts /\ trouble' = trouble
                 \/ (StopFails \/ StartFails) /\ trouble' \in 0..MaxTrouble
    PROVE  IInv'
<1> USE DEF IInv, Base
<1>1. trouble' \in 0..MaxTrouble /\ op.ok \in BOOLEAN /\ disk \in Disk /\ disk.runtime \in Bundle \cup {None}
  BY DEF Types, OtherTypes, OpTypes, OpType, PlaceTypes, Disk
<1>2. gateway \in {"up", "down"} /\ cache \in Profile \cup {None} /\ abandoned \in BOOLEAN
      /\ ProfileIn(disk.runtime) \in Profile \cup {None}
  BY <1>1, Constants DEF Types, OtherTypes, FlagTypes, ProfileIn
<1>3. op.at \in {"stop", "start"} => (gateway = "up" /\ Quiet => cache = ProfileIn(disk.runtime))
  BY DEF GatewayInv
<1> USE DEF loginVars, modelVars, gwVars, history, Loads
<1>4. CASE Starts
  BY <1>1, <1>2, <1>4, EndsKeeps DEF Starts
<1>5. CASE StopFails
  BY <1>1, <1>2, <1>3, <1>5, EndsKeeps DEF StopFails
<1>6. CASE StartFails
  BY <1>1, <1>2, <1>3, <1>6, EndsKeeps DEF StartFails
<1> QED
  BY <1>4, <1>5, <1>6

LEMMA BeginsKeeps == ASSUME IInv, Begins, trouble' = trouble PROVE IInv'
<1> USE DEF IInv, Base
<1> DEFINE r == op.req
           out == (r.kind = "sync" /\ Skips(r)) \/ Refused(r)
<1>1. /\ op.at = "begin"
      /\ op' = [op EXCEPT !.at = IF out THEN "start" ELSE "write", !.i = 1, !.ok = ~Refused(r),
                          !.carry = IF out THEN {} ELSE op.carry]
      /\ snap' = IF r.kind \in Guarded THEN disk ELSE snap
      /\ UNCHANGED <<disk, queue, seen, login, got, pending, model, copy, gateway, cache, requests, trouble, torn,
                     late, abandoned, synced>>
  BY DEF Begins, loginVars, modelVars, gwVars, history
<1>2. op \in OpType /\ r \in Request /\ r.kind \in Kinds
  BY DEF Types, OpTypes, OpType, Request
<1>3. /\ op' \in OpType /\ op'.req = r /\ op'.i = 1 /\ op'.ok = ~Refused(r)
      /\ op'.at = IF out THEN "start" ELSE "write"
      /\ ~out => op'.carry = op.carry
  <2> HIDE DEF out
  <2>1. PICK ok \in BOOLEAN : ok = ~Refused(r)
    OBVIOUS
  <2>2. PICK carry \in SUBSET Reasons : carry = IF out THEN {} ELSE op.carry
    BY <1>2 DEF OpType
  <2>3. PICK at \in {"start", "write"} : at = IF out THEN "start" ELSE "write"
    OBVIOUS
  <2>4. op' = [op EXCEPT !.at = at, !.i = 1, !.ok = ok, !.carry = carry]
    BY <1>1, <2>1, <2>2, <2>3
  <2>5. op' \in OpType /\ op'.req = r /\ op'.i = 1 /\ op'.ok = ok /\ op'.at = at /\ op'.carry = carry
    <3>1. op'.req = r /\ op'.i = 1 /\ op'.ok = ok /\ op'.at = at /\ op'.carry = carry
      BY <1>2, <2>4 DEF OpType
    <3>2. at \in Between \cup Writing \cup {"undo"}
      BY DEF Between, Writing
    <3>3. op' = [at |-> at, i |-> 1, ok |-> ok, carry |-> carry, req |-> r]
      BY <1>2, <2>4 DEF OpType
    <3>4. r \in Request /\ 1 \in 0..9
      BY <1>2
    <3> HIDE DEF r
    <3>5. [at |-> at, i |-> 1, ok |-> ok, carry |-> carry, req |-> r] \in OpType
      BY <3>2, <3>4 DEF OpType
    <3> QED
      BY ONLY <3>1, <3>3, <3>5
  <2> QED
    BY <2>1, <2>2, <2>3, <2>5
<1>4. snap' \in Disk
  BY <1>1 DEF Types, PlaceTypes
<1>5. CASE out
  <2> HIDE DEF out
  <2>1. GatewayInv'
    BY <1>1, <1>3, <1>5 DEF GatewayInv, Quiet
  <2>2. ~(op'.ok /\ op'.req.kind = "login")
    BY <1>3, <1>5 DEF out, Refused
  <2> QED
    BY <1>1, <1>3, <1>4, <1>5, <2>1, <2>2, Waits DEF Between, Types, PlaceTypes, OpTypes, OtherTypes, RequestInv
<1>6. CASE ~out
  <2>1. op'.at = "write"
    BY <1>3, <1>6
  <2>2. r.kind = "sync" => ~Skips(r)
    BY <1>6
  <2> HIDE DEF out
  <2>3. Types'
    BY <1>1, <1>3, <1>4 DEF Types, PlaceTypes, OpTypes, LoginTypes, OtherTypes, FlagTypes
  <2>4. RequestInv'
    BY <1>1, <1>3 DEF RequestInv, Fits
  <2>5. StepInv'
    <3>1. Len(Order(r.kind)) \in 1..8
      BY <1>2, OrderIs
    <3>2. 1 \in 1..Len(Order(r.kind))
      BY ONLY <3>1
    <3>3. op'.req = r /\ op'.i = 1
      BY <1>3
    <3>4. op'.i \in 1..Len(Order(op'.req.kind))
      BY <3>2, <3>3
    <3> QED
      BY <2>1, <3>3, <3>4 DEF StepInv
  <2>6. GatewayInv'
    BY <1>1, <1>3, <1>6, <2>1 DEF GatewayInv
  <2>7. r.kind \in Guarded => snap' = disk
    BY <1>1
  <2>8. AgreeInv'
    <3>1. Quiet' => AgreedIn(disk)
      BY <1>1 DEF AgreeInv, Between, Quiet
    <3>2. SameLogin(disk, disk)
      BY DEF SameLogin
    <3>3. \A p : ~Written(p)'
      BY <1>3 DEF Written
    <3> QED
      BY <1>1, <1>3, <2>1, <2>7, <3>1, <3>2, <3>3 DEF AgreeInv, Between, Writing
  <2>9. StatusInv'
    BY <1>1, <1>3, <2>1, <2>7 DEF StatusInv, Between, Writing, Quiet, Told
  <2>10. VersionInv'
    BY <1>1, <1>3, <2>2, <2>7 DEF VersionInv, Known, Skips, Saved, SavedIn, Guarded
  <2>11. MarkerInv'
    BY <1>1, <1>3, <2>1, <2>7 DEF MarkerInv, Between, Writing, Guarded
  <2> QED
    BY <2>3, <2>4, <2>5, <2>6, <2>8, <2>9, <2>10, <2>11
<1> QED
  BY <1>5, <1>6

LEMMA ReadsConfigKeeps == ASSUME IInv, ReadsConfig, trouble' = trouble PROVE IInv'
<1> USE DEF IInv, Base
<1>1. /\ op.at = "write" /\ Place = "config" /\ seen' = disk.config /\ op' = [op EXCEPT !.at = "rewrite"]
      /\ UNCHANGED <<disk, queue, snap, login, got, pending, model, copy, gateway, cache, requests, trouble, torn,
                     late, abandoned, synced>>
  BY DEF ReadsConfig, loginVars, modelVars, gwVars, history
<1>2. /\ op' \in OpType /\ op'.at = "rewrite" /\ op'.req = op.req /\ op'.i = op.i /\ op'.carry = op.carry
  BY <1>1 DEF Types, OpTypes, OpType, Writing
<1>3. disk.config \in Config
  BY DEF Types, PlaceTypes, Disk
<1>4. Types'
  BY <1>1, <1>2, <1>3 DEF Types, PlaceTypes, OpTypes, LoginTypes, OtherTypes, FlagTypes
<1>5. RequestInv'
  BY <1>1, <1>2 DEF RequestInv, Fits
<1>6. StepInv'
  BY <1>1, <1>2 DEF StepInv, Writing, Place
<1>7. GatewayInv'
  BY <1>1, <1>2 DEF GatewayInv
<1>8. AgreeInv'
  <2>1. \A p : Written(p)' => Written(p)
    BY <1>2 DEF Written
  <2> QED
    BY <1>1, <1>2, <2>1 DEF AgreeInv, Between, Writing, Quiet, Unsettled
<1>9. StatusInv'
  BY <1>1, <1>2 DEF StatusInv, Between, Writing, Quiet, Told
<1>10. VersionInv' /\ MarkerInv'
  BY <1>1, <1>2 DEF VersionInv, MarkerInv, Between, Writing
<1> QED
  BY <1>4, <1>5, <1>6, <1>7, <1>8, <1>9, <1>10

(* A place that is written holds the new login, and no other place moves.   *)
LEMMA WriteDone ==
    ASSUME Types, NEW r \in Request, Fits(r), r.kind \in Rewrites, NEW p \in Logins \cup {"sync", "check"},
           p = "sync" => r.kind \in {"sync", "clear"}, NEW d, d = With(r, p),
           NEW q \in Logins, q = p \/ DoneIn(disk, q, r.bundle)
    PROVE  DoneIn(d, q, r.bundle)
<1>1. d.shared = IF p = "shared" THEN r.bundle ELSE disk.shared
  BY WithIs
<1>2. d.agent = IF p = "agent" THEN r.bundle ELSE disk.agent
  BY WithIs
<1>11. d.runtime = IF p = "runtime" THEN r.bundle ELSE disk.runtime
  BY WithIs
<1>12. d.config.auth = IF p = "config" THEN r.bundle ELSE disk.config.auth
  BY WithIs
<1>13. d.cli = IF p = "cli" THEN CliWith(r) ELSE disk.cli
  BY WithIs
<1>14. d.sessions = IF p = "sessions" THEN Pin(r.bundle) ELSE disk.sessions
  BY WithIs
<1>3. Pin(r.bundle) \in {None, ProfileIn(r.bundle)}
  BY DEF Pin
<1>4. CliWith(r).mode = "chatgpt" => CliWith(r).tokens = r.bundle
  <2>1. disk.cli \in CliState
    BY DEF Types, PlaceTypes, Disk
  <2> QED
    BY <2>1 DEF CliWith, CliState, Rewrites
<1>5. CASE q = "shared"
  BY <1>1, <1>5 DEF DoneIn
<1>6. CASE q = "agent"
  BY <1>2, <1>6 DEF DoneIn
<1>7. CASE q = "runtime"
  BY <1>11, <1>7 DEF DoneIn
<1>8. CASE q = "config"
  BY <1>12, <1>8 DEF DoneIn
<1>9. CASE q = "sessions"
  BY <1>14, <1>3, <1>9 DEF DoneIn
<1>10. CASE q = "cli"
  BY <1>13, <1>4, <1>10 DEF DoneIn
<1> QED
  BY <1>5, <1>6, <1>7, <1>8, <1>9, <1>10 DEF Logins

LEMMA AllDone ==
    ASSUME NEW d \in Disk, NEW b, \A q \in Logins : DoneIn(d, q, b)
    PROVE  AgreedIn(d) /\ d.runtime = b
<1>1. d.shared = b
  BY DEF DoneIn, Logins
<1>2. d.agent = b
  BY DEF DoneIn, Logins
<1>3. d.runtime = b
  BY DEF DoneIn, Logins
<1>4. d.config.auth = b
  BY DEF DoneIn, Logins
<1>5. d.sessions \in {None, ProfileIn(b)}
  BY DEF DoneIn, Logins
<1>6. d.cli.mode = "chatgpt" => d.cli.tokens = b
  BY DEF DoneIn, Logins
<1> QED
  BY <1>1, <1>2, <1>3, <1>4, <1>5, <1>6 DEF AgreedIn

(* A change of the auth mode keeps the login that is there.                 *)
LEMMA ModeWritten ==
    ASSUME Types, NEW r \in Request, Fits(r), r.kind \in {"openai", "apikey"}, NEW p \in {"cli", "sessions", "check"},
           NEW d, d = With(r, p), AgreedIn(disk)
    PROVE  AgreedIn(d) /\ SameLogin(d, disk)
<1>0. p \in Logins \cup {"sync", "check"} /\ p # "sync"
  BY DEF Logins
<1>1. SameLogin(d, disk)
  <2>1. d.shared = disk.shared /\ d.agent = disk.agent
    BY <1>0, WithIs
  <2>2. d.runtime = disk.runtime /\ d.config.auth = disk.config.auth
    BY <1>0, WithIs
  <2> QED
    BY <2>1, <2>2 DEF SameLogin
<1>6. d.cli = IF p = "cli" THEN CliWith(r) ELSE disk.cli
  BY <1>0, WithIs
<1>7. d.sessions = IF p = "sessions" THEN Pin(r.bundle) ELSE disk.sessions
  BY <1>0, WithIs
<1>2. disk.cli \in CliState
  BY DEF Types, PlaceTypes, Disk
<1>3. Saved = disk.runtime
  BY DEF Saved, AgreedIn
<1>4. CliWith(r).mode = "chatgpt" => CliWith(r).tokens = disk.runtime
  BY <1>2, <1>3 DEF CliWith, CliState
<1>5. Pin(r.bundle) = None
  BY DEF Pin, ProfileIn, Fits
<1> QED
  BY <1>1, <1>4, <1>5, <1>6, <1>7 DEF AgreedIn, SameLogin

LEMMA SettlesIs ==
    ASSUME NEW k \in Kinds
    PROVE  /\ k \in {"sync", "clear"} => Settles(k) = Reasons
           /\ k \in {"import", "login"} => Settles(k) = Reasons \ {"marker"}
           /\ k \in {"openai", "apikey"} => Settles(k) = {}
BY DEF Settles, Kinds

LEMMA WritesKeeps == ASSUME IInv, Writes, trouble' = trouble PROVE IInv'
<1> DEFINE r == op.req
           n == Len(Order(r.kind))
           p == Order(r.kind)[op.i]
           last == op.i = n
<1>0. Types /\ RequestInv /\ StepInv /\ GatewayInv /\ AgreeInv /\ StatusInv /\ VersionInv /\ MarkerInv
  BY DEF IInv, Base
<1>1. /\ op.at \in Writing
      /\ disk' = With(r, p)
      /\ op' = [op EXCEPT !.at = IF last THEN "start" ELSE "write", !.i = op.i + 1]
      /\ pending' = IF last THEN Forgets(r) ELSE pending
      /\ torn' = IF last THEN torn \ (op.carry \cap Settles(r.kind)) ELSE torn
      /\ late' = (\/ late /\ ~(last /\ Forgets(r) = None)
                  \/ r.kind = "login" /\ pending # r.login)
      /\ synced' = IF last /\ r.kind = "sync" THEN synced \cup {disk'.sync} ELSE synced
      /\ UNCHANGED <<queue, snap, seen, login, got, model, copy, gateway, cache, requests, trouble, abandoned>>
  BY DEF Writes, Place, Writing, modelVars, gwVars
<1>2. op \in OpType /\ r \in Request /\ r.kind \in Kinds /\ Fits(r)
  BY <1>0 DEF Types, OpTypes, OpType, Request, RequestInv
<1>3. n \in 1..8 /\ op.i \in 1..n
  BY <1>0, <1>1, <1>2, OrderIs DEF StepInv
<1>4. p \in Logins \cup {"sync", "check"} /\ (p = "sync" <=> op.i = 7 /\ r.kind \in {"sync", "clear"})
  BY <1>2, <1>3, OrderIs
<1>5. /\ op' \in OpType /\ op'.req = r /\ op'.i = op.i + 1 /\ op'.ok = op.ok /\ op'.carry = op.carry
      /\ op'.at = IF last THEN "start" ELSE "write"
  <2>1. PICK at \in {"start", "write"} : at = IF last THEN "start" ELSE "write"
    OBVIOUS
  <2>2. op.i + 1 \in 0..9
    <3> HIDE DEF n
    <3> QED
      BY <1>3
  <2>3. op' = [at |-> at, i |-> op.i + 1, ok |-> op.ok, carry |-> op.carry, req |-> r]
    BY <1>1, <1>2, <2>1 DEF OpType
  <2>4. at \in Between \cup Writing \cup {"undo"}
    BY DEF Between, Writing
  <2>5. op' \in OpType
    BY ONLY <1>2, <2>2, <2>3, <2>4 DEF OpType
  <2> QED
    BY <2>1, <2>3, <2>5
<1>6. last => n = op.i
  OBVIOUS
<1>7. \A q \in Logins : r.kind \in Rewrites /\ (q = p \/ DoneIn(disk, q, r.bundle)) => DoneIn(disk', q, r.bundle)
  BY <1>0, <1>1, <1>2, <1>4, WriteDone
<1>8. r.kind \notin Rewrites /\ AgreedIn(disk) => AgreedIn(disk') /\ SameLogin(disk', disk)
  <2>1. SUFFICES ASSUME r.kind \notin Rewrites, AgreedIn(disk) PROVE AgreedIn(disk') /\ SameLogin(disk', disk)
    OBVIOUS
  <2>2. r.kind \in {"openai", "apikey"} /\ p \in {"cli", "sessions", "check"}
    BY <1>2, <1>3, <2>1, OrderIs DEF Kinds, Rewrites
  <2> QED
    BY <1>0, <1>1, <1>2, <2>1, <2>2, ModeWritten
<1>9. disk' \in Disk
  BY <1>0, <1>1, <1>2, <1>4, WithIs
<1>10. last => \A q \in Logins : r.kind \in Rewrites => q = p \/ Written(q)
  <2> SUFFICES ASSUME last, r.kind \in Rewrites, NEW q \in Logins PROVE q = p \/ Written(q)
    OBVIOUS
  <2>1. PICK j \in 1..n : Order(r.kind)[j] = q
    BY <1>2, OrderIs
  <2>2. CASE j = op.i
    BY <2>1, <2>2
  <2>3. CASE j # op.i
    <3> HIDE DEF n
    <3>1. j \in 1..op.i - 1
      BY <1>3, <1>6, <2>3
    <3> QED
      BY <2>1, <3>1 DEF Written
  <2> QED
    BY <2>2, <2>3
<1>11. \A q : Written(q)' => q = p \/ Written(q)
  <2> SUFFICES ASSUME NEW q, Written(q)' PROVE q = p \/ Written(q)
    OBVIOUS
  <2>1. PICK j \in 1..op.i : Order(r.kind)[j] = q
    BY <1>3, <1>5 DEF Written
  <2>2. j = op.i \/ j \in 1..op.i - 1
    <3> HIDE DEF n
    <3> QED
      BY <1>3
  <2> QED
    BY <2>1, <2>2 DEF Written
<1>13. /\ r.kind = "clear" => (op.i = 7 <=> last)
       /\ r.kind = "sync" => (op.i = 8 <=> last)
  BY <1>2, OrderIs
<1> HIDE DEF n, p
<1>14. /\ p # "sync" => disk'.sync = disk.sync
       /\ p = "sync" /\ r.kind = "clear" => disk'.sync = None
       /\ p = "sync" /\ r.kind = "sync" =>
            disk'.sync \in Marker /\ disk'.sync.version = r.version /\ disk'.sync.profile = ProfileOf[r.bundle]
  <2>1. p # "sync" => disk'.sync = disk.sync
    BY <1>0, <1>1, <1>2, <1>4, WithIs
  <2>2. p = "sync" /\ r.kind = "clear" => disk'.sync = None
    BY <1>0, <1>1, <1>2, <1>4, WithIs
  <2>3. p = "sync" /\ r.kind = "sync" => disk'.sync \in Marker
    BY <1>0, <1>1, <1>2, <1>4, WithIs
  <2>4. p = "sync" /\ r.kind = "sync" => disk'.sync.version = r.version /\ disk'.sync.profile = ProfileOf[r.bundle]
    BY <1>0, <1>1, <1>2, <1>4, WithIs
  <2> QED
    BY <2>1, <2>2, <2>3, <2>4
<1>16. last /\ r.kind = "sync" => disk'.sync \in Marker
  BY <1>0, <1>1, <1>4, <1>13, <1>14 DEF StepInv
<1>17. Types'
  <2>1. pending' \in Login \cup {None} /\ torn' \subseteq Reasons /\ synced' \subseteq Marker
    BY <1>0, <1>1, <1>16 DEF Types, LoginTypes, OtherTypes, Forgets
  <2>2. late' \in BOOLEAN
    BY <1>1
  <2> QED
    BY <1>0, <1>1, <1>5, <1>9, <2>1, <2>2
    DEF Types, PlaceTypes, OpTypes, LoginTypes, OtherTypes, FlagTypes
<1>18. RequestInv'
  BY <1>0, <1>1, <1>5 DEF RequestInv, Fits
<1>19. StepInv'
  <2>1. CASE last
    BY <1>5, <2>1 DEF StepInv, Writing
  <2>2. CASE ~last
    <3>1. op'.i \in 1..n /\ op'.at = "write"
      BY <1>3, <1>5, <2>2
    <3>2. op'.i = 8 => op.i = 7
      BY <1>3, <1>5
    <3>3. op'.i = 8 /\ r.kind = "sync" => disk'.sync \in Marker
      BY <1>4, <1>14, <3>2
    <3>4. op'.i \in 1..Len(Order(op'.req.kind))
      BY <1>5, <3>1 DEF n
    <3> QED
      BY <1>5, <3>1, <3>3, <3>4 DEF StepInv
  <2> QED
    BY <2>1, <2>2
<1>20. GatewayInv'
  BY <1>0, <1>1, <1>5 DEF GatewayInv, Writing, Quiet
<1>21. r.kind \notin Rewrites => torn' = torn /\ r.kind \in Guarded
  <2>1. r.kind \notin Rewrites => Settles(r.kind) = {} /\ r.kind \in Guarded
    BY <1>2, SettlesIs DEF Rewrites, Guarded, Kinds
  <2> QED
    BY <1>1, <2>1
<1>22. last /\ Quiet' => AgreedIn(disk') /\ (r.kind \in Rewrites => disk'.runtime = r.bundle)
  <2> SUFFICES ASSUME last, Quiet' PROVE AgreedIn(disk') /\ (r.kind \in Rewrites => disk'.runtime = r.bundle)
    OBVIOUS
  <2>1. CASE r.kind \in Rewrites
    <3>1. Unsettled \subseteq {"marker"}
      BY <1>1 DEF Unsettled, Quiet
    <3>2. \A q \in Logins : q = p \/ DoneIn(disk, q, r.bundle)
      BY <1>0, <1>1, <1>10, <2>1, <3>1 DEF AgreeInv
    <3>3. \A q \in Logins : DoneIn(disk', q, r.bundle)
      BY <1>7, <2>1, <3>2
    <3> QED
      BY <1>9, <3>3, AllDone
  <2>2. CASE r.kind \notin Rewrites
    <3>1. Quiet
      BY <1>21, <2>2 DEF Quiet
    <3>2. AgreedIn(disk)
      BY <1>0, <1>1, <1>21, <2>2, <3>1 DEF AgreeInv
    <3> QED
      BY <1>8, <2>2, <3>2
  <2> QED
    BY <2>1, <2>2
<1>23. AgreeInv'
  <2>1. CASE last
    BY <1>5, <1>22, <2>1 DEF AgreeInv, Writing
  <2>2. CASE ~last
    <3>1. op'.at = "write" /\ torn' = torn /\ snap' = snap /\ op'.req = r /\ (Unsettled' = Unsettled)
      BY <1>1, <1>5, <2>2 DEF Unsettled
    <3>2. r.kind \in Guarded /\ Quiet => AgreedIn(snap)
      BY <1>0, <1>1 DEF AgreeInv
    <3>3. r.kind \in Guarded \ Rewrites /\ Quiet => AgreedIn(disk') /\ SameLogin(disk', snap)
      BY <1>0, <1>1, <1>8 DEF AgreeInv, SameLogin
    <3>4. r.kind \in Rewrites /\ Unsettled \subseteq {"marker"} =>
            \A q \in Logins : Written(q)' => DoneIn(disk', q, r.bundle)
      BY <1>0, <1>1, <1>7, <1>11 DEF AgreeInv
    <3> QED
      BY <3>1, <3>2, <3>3, <3>4 DEF AgreeInv, Between, Quiet
  <2> QED
    BY <2>1, <2>2
<1>24. StatusInv'
  <2>1. CASE last
    <3>1. op'.at = "start"
      BY <1>5, <2>1
    <3>2. Told' => disk'.runtime = got[pending']
      <4> SUFFICES ASSUME Told' PROVE disk'.runtime = got[pending']
        OBVIOUS
      <4>1. pending' # None /\ login[pending'] = "connected" /\ Quiet' /\ ~late'
        BY <1>1 DEF Told
      <4>2. pending' = pending /\ r.kind \notin {"import", "sync", "clear"}
        BY <1>1, <2>1, <4>1 DEF Forgets
      <4>3. CASE r.kind = "login"
        <5>1. pending = r.login /\ got[r.login] = r.bundle
          BY <1>1, <1>2, <4>1, <4>3 DEF Fits
        <5> QED
          BY <1>22, <2>1, <4>1, <4>2, <4>3, <5>1 DEF Rewrites
      <4>4. CASE r.kind \in {"openai", "apikey"}
        <5>1. r.kind \in Guarded \ Rewrites /\ Quiet /\ ~late
          BY <1>1, <1>21, <4>1, <4>2, <4>4 DEF Guarded, Rewrites, Quiet, Forgets
        <5>2. Told
          BY <4>1, <4>2, <5>1 DEF Told
        <5>3. snap.runtime = got[pending] /\ AgreedIn(disk) /\ SameLogin(disk, snap)
          BY <1>0, <1>1, <5>1, <5>2 DEF StatusInv, AgreeInv
        <5> QED
          BY <1>8, <4>2, <5>1, <5>3 DEF SameLogin
      <4> QED
        BY <1>2, <4>2, <4>3, <4>4 DEF Kinds
    <3>3. r.kind = "login" /\ Quiet' => disk'.runtime = r.bundle
      BY <1>22, <2>1 DEF Rewrites
    <3> QED
      BY <1>1, <1>5, <3>1, <3>2, <3>3 DEF StatusInv, Writing
  <2>2. CASE ~last
    <3>1. op'.at = "write" /\ op'.req = r /\ snap' = snap
      BY <1>1, <1>5, <2>2
    <3>2. Told' => Told /\ pending' = pending /\ got' = got
      BY <1>1, <2>2 DEF Told, Quiet
    <3>3. r.kind \in Guarded /\ Told => snap.runtime = got[pending]
      BY <1>0, <1>1 DEF StatusInv
    <3> QED
      BY <3>1, <3>2, <3>3 DEF StatusInv, Between
  <2> QED
    BY <2>1, <2>2
<1>25. VersionInv'
  <2>1. CASE last
    BY <1>5, <2>1 DEF VersionInv, Writing
  <2>2. CASE ~last
    <3> SUFFICES ASSUME r.kind = "sync" PROVE ~Known(snap, r) /\ (op'.i <= 7 => disk'.sync = snap.sync)
      BY <1>1, <1>5 DEF VersionInv
    <3>1. ~Known(snap, r) /\ (op.i <= 7 => disk.sync = snap.sync)
      BY <1>0, <1>1 DEF VersionInv
    <3>2. op'.i <= 7 => op.i <= 7 /\ p # "sync"
      BY <1>3, <1>4, <1>5
    <3> QED
      BY <1>14, <3>1, <3>2
  <2> QED
    BY <2>1, <2>2
<1>26. MarkerInv'
  <2> SUFFICES ASSUME "marker" \notin torn' PROVE MarkerInv'
    BY DEF MarkerInv
  <2>1. CASE r.kind = "sync"
    <3>1. CASE last
      BY <1>1, <1>5, <2>1, <3>1 DEF MarkerInv, Writing
    <3>2. CASE ~last
      <4>1. "marker" \notin torn /\ op'.at = "write" /\ op'.req = r /\ snap' = snap /\ synced' = synced
        BY <1>1, <1>5, <3>2
      <4> QED
        BY <1>0, <1>1, <2>1, <4>1 DEF MarkerInv, Between
    <3> QED
      BY <3>1, <3>2
  <2>2. CASE r.kind = "clear"
    <3>1. CASE last
      <4>1. p = "sync"
        BY <1>4, <1>13, <2>2, <3>1
      <4> QED
        BY <1>5, <1>14, <2>2, <3>1, <4>1 DEF MarkerInv, Writing
    <3>2. CASE ~last
      <4>1. "marker" \notin torn /\ op'.at = "write" /\ op'.req = r /\ synced' = synced
        BY <1>1, <1>5, <2>2, <3>2
      <4>2. disk'.sync = disk.sync
        BY <1>4, <1>13, <1>14, <2>2, <3>2
      <4> QED
        BY <1>0, <1>1, <2>2, <4>1, <4>2 DEF MarkerInv
    <3> QED
      BY <3>1, <3>2
  <2>3. CASE r.kind \notin {"sync", "clear"}
    <3>1. "marker" \notin torn /\ synced' = synced /\ disk'.sync = disk.sync
      <4>1. "marker" \notin Settles(r.kind)
        BY <1>2, <2>3, SettlesIs DEF Kinds
      <4> QED
        BY <1>1, <1>4, <1>14, <2>3, <4>1
    <3> QED
      BY <1>0, <1>1, <1>5, <2>3, <3>1 DEF MarkerInv
  <2> QED
    BY <2>1, <2>2, <2>3
<1> QED
  BY <1>17, <1>18, <1>19, <1>20, <1>23, <1>24, <1>25, <1>26 DEF IInv, Base

LEMMA WriteFailsKeeps == ASSUME IInv, WriteFails, trouble' \in 0..MaxTrouble PROVE IInv'
<1> DEFINE guarded == op.req.kind \in Guarded
<1>0. Types /\ RequestInv /\ StepInv /\ GatewayInv /\ AgreeInv /\ StatusInv /\ VersionInv /\ MarkerInv
  BY DEF IInv, Base
<1>1. /\ op.at \in Writing
      /\ op' = [op EXCEPT !.at = IF guarded THEN "undo" ELSE "start", !.ok = FALSE]
      /\ torn' = IF guarded THEN torn ELSE torn \cup Left
      /\ UNCHANGED <<disk, queue, snap, seen, login, got, pending, model, copy, gateway, cache, requests,
                     late, abandoned, synced>>
  BY DEF WriteFails, Writing, loginVars, modelVars, gwVars, history
<1>2. op \in OpType /\ op.req.kind \in Kinds
  BY <1>0 DEF Types, OpTypes, OpType, Request
<1>3. /\ op' \in OpType /\ op'.req = op.req /\ op'.ok = FALSE /\ op'.carry = op.carry
      /\ op'.at = IF guarded THEN "undo" ELSE "start"
  BY <1>1, <1>2 DEF OpType, Between
<1>4. "unfinished" \in Left /\ Left \subseteq Reasons
  BY DEF Left, Reasons
<1>5. Types'
  <2>1. torn' \subseteq Reasons
    BY <1>0, <1>1, <1>4 DEF Types, OtherTypes
  <2> QED
    BY <1>0, <1>1, <1>3, <2>1 DEF Types, PlaceTypes, OpTypes, LoginTypes, OtherTypes, FlagTypes
<1>6. RequestInv'
  BY <1>0, <1>1, <1>3 DEF RequestInv, Fits
<1>7. StepInv' /\ VersionInv'
  BY <1>3 DEF StepInv, VersionInv, Writing
<1>8. CASE guarded
  <2>1. op'.at = "undo" /\ torn' = torn
    BY <1>1, <1>3, <1>8
  <2>2. GatewayInv'
    BY <1>0, <1>1, <1>3, <2>1 DEF GatewayInv, Writing
  <2>3. AgreeInv'
    BY <1>0, <1>1, <1>3, <2>1 DEF AgreeInv, Between, Writing, Quiet
  <2>4. StatusInv'
    BY <1>0, <1>1, <1>3, <2>1 DEF StatusInv, Between, Quiet, Told
  <2>5. MarkerInv'
    BY <1>0, <1>1, <1>3, <2>1 DEF MarkerInv, Between
  <2> QED
    BY <1>5, <1>6, <1>7, <2>2, <2>3, <2>4, <2>5 DEF IInv, Base
<1>9. CASE ~guarded
  <2>1. op'.at = "start" /\ ~Quiet' /\ op.req.kind # "sync" /\ torn \subseteq torn'
    BY <1>1, <1>3, <1>4, <1>9 DEF Quiet, Guarded
  <2>2. GatewayInv' /\ AgreeInv' /\ StatusInv'
    BY <2>1 DEF GatewayInv, AgreeInv, StatusInv, Writing, Told
  <2>3. MarkerInv'
    BY <1>0, <1>1, <1>3, <2>1 DEF MarkerInv, Writing
  <2> QED
    BY <1>5, <1>6, <1>7, <2>2, <2>3 DEF IInv, Base
<1> QED
  BY <1>8, <1>9

(* A rollback, complete or not: the places that it has restored, P.         *)
LEMMA UndoKeeps ==
    ASSUME IInv, op.at = "undo", op' = [op EXCEPT !.at = "start"],
           NEW P \in SUBSET Range(Kept(op.req.kind)), disk' = Restored(P),
           torn' = torn \/ torn' = torn \cup Left,
           "unfinished" \notin torn' \/ (op.req.kind = "sync" /\ "marker" \notin torn') =>
               P = Range(Kept(op.req.kind)),
           trouble' \in 0..MaxTrouble,
           UNCHANGED <<queue, snap, seen, login, got, pending, model, copy, gateway, cache, requests,
                       late, abandoned, synced>>
    PROVE  IInv'
<1> DEFINE k == op.req.kind
<1>0. Types /\ RequestInv /\ StepInv /\ GatewayInv /\ AgreeInv /\ StatusInv /\ VersionInv /\ MarkerInv
  BY DEF IInv, Base
<1>1. disk \in Disk /\ snap \in Disk /\ op \in OpType /\ k \in Guarded
  BY <1>0 DEF Types, PlaceTypes, OpTypes, StepInv
<1>2. op' \in OpType /\ op'.req = op.req /\ op'.ok = op.ok /\ op'.carry = op.carry /\ op'.at = "start"
  BY <1>1 DEF OpType, Between
<1>3. "unfinished" \in Left /\ Left \subseteq Reasons
  BY DEF Left, Reasons
<1>4. disk' \in Disk
  BY <1>1, RestoredIs
<1>5. disk'.sync = IF "sync" \in P THEN snap.sync ELSE disk.sync
  BY <1>1, RestoredIs
<1>6. Types'
  <2>1. torn' \subseteq Reasons
    BY <1>0, <1>3 DEF Types, OtherTypes
  <2> QED
    BY <1>0, <1>2, <1>4, <2>1 DEF Types, PlaceTypes, OpTypes, LoginTypes, OtherTypes, FlagTypes
<1>7. RequestInv'
  BY <1>0, <1>2 DEF RequestInv, Fits
<1>8. StepInv' /\ VersionInv'
  BY <1>2 DEF StepInv, VersionInv, Writing
<1>9. GatewayInv'
  BY <1>0, <1>2, <1>3 DEF GatewayInv, Quiet
<1>10. Quiet' => Quiet /\ P = Range(Kept(k))
  BY <1>3 DEF Quiet
<1>11. Quiet' => AgreedIn(disk') /\ disk'.runtime = snap.runtime
  <2> SUFFICES ASSUME Quiet' PROVE AgreedIn(disk') /\ disk'.runtime = snap.runtime
    OBVIOUS
  <2>1. AgreedIn(snap) /\ (k \notin Rewrites => SameLogin(disk, snap))
    BY <1>0, <1>1, <1>10 DEF AgreeInv
  <2>2. (k \in Rewrites => Logins \subseteq P) /\ (k \notin Rewrites => P = {"cli", "sessions"})
    BY <1>1, <1>10, KeptIs
  <2>3. "cli" \in P /\ "sessions" \in P
    BY <2>2 DEF Logins
  <2>4. disk'.cli = snap.cli /\ disk'.sessions = snap.sessions
    BY <1>1, <2>3, RestoredIs
  <2>5. SameLogin(disk', snap)
    <3>1. CASE k \in Rewrites
      <4>1. {"shared", "agent", "runtime", "config"} \subseteq P
        BY <2>2, <3>1 DEF Logins
      <4>2. disk'.shared = snap.shared /\ disk'.agent = snap.agent
        BY <1>1, <4>1, RestoredIs
      <4>3. disk'.runtime = snap.runtime /\ disk'.config = snap.config
        BY <1>1, <4>1, RestoredIs
      <4> QED
        BY <4>2, <4>3 DEF SameLogin
    <3>2. CASE k \notin Rewrites
      <4>1. P = {"cli", "sessions"}
        BY <2>2, <3>2
      <4>2. disk'.shared = disk.shared /\ disk'.agent = disk.agent
        BY <1>1, <4>1, RestoredIs
      <4>3. disk'.runtime = disk.runtime /\ disk'.config = disk.config
        BY <1>1, <4>1, RestoredIs
      <4> QED
        BY <2>1, <3>2, <4>2, <4>3 DEF SameLogin
    <3> QED
      BY <3>1, <3>2
  <2> QED
    BY <2>1, <2>4, <2>5 DEF AgreedIn, SameLogin
<1>12. AgreeInv'
  BY <1>2, <1>11 DEF AgreeInv, Writing
<1>13. StatusInv'
  <2>1. Told' => disk'.runtime = got[pending]
    <3>1. Told' => Told
      BY <1>10 DEF Told
    <3>2. Told' => Quiet'
      BY DEF Told
    <3> QED
      BY <1>0, <1>1, <1>11, <3>1, <3>2 DEF StatusInv
  <2>2. op'.req.kind # "login"
    BY <1>1, <1>2 DEF Guarded
  <2> QED
    BY <1>2, <2>1, <2>2 DEF StatusInv, Writing
<1>14. MarkerInv'
  <2> SUFFICES ASSUME "marker" \notin torn' PROVE disk'.sync \in synced \cup {None}
    BY <1>2 DEF MarkerInv, Writing
  <2>1. "marker" \notin torn
    OBVIOUS
  <2>2. CASE k = "sync"
    <3>1. "sync" \in P
      BY <1>1, <2>2, KeptIs
    <3> QED
      BY <1>0, <1>5, <2>1, <2>2, <3>1 DEF MarkerInv
  <2>3. CASE k # "sync"
    <3>1. "sync" \notin P
      BY <1>1, <2>3, KeptIs
    <3> QED
      BY <1>0, <1>5, <2>1, <2>3, <3>1 DEF MarkerInv
  <2> QED
    BY <2>2, <2>3
<1> QED
  BY <1>6, <1>7, <1>8, <1>9, <1>12, <1>13, <1>14 DEF IInv, Base

LEMMA UndoesKeeps ==
    ASSUME IInv, \/ Undoes /\ trouble' = trouble
                 \/ UndoFails /\ trouble' \in 0..MaxTrouble
    PROVE  IInv'
<1> USE DEF loginVars, modelVars, gwVars, history
<1>1. CASE Undoes /\ trouble' = trouble
  <2>1. trouble' \in 0..MaxTrouble
    BY <1>1 DEF IInv, Base, Types, OtherTypes
  <2> QED
    BY <1>1, <2>1, UndoKeeps DEF Undoes
<1>2. CASE UndoFails /\ trouble' \in 0..MaxTrouble
  <2> DEFINE kept == Kept(op.req.kind)
  <2>1. PICK n \in 0..Len(kept) - 1 : disk' = Restored(Range(SubSeq(kept, 1, n)))
    BY <1>2 DEF UndoFails
  <2>2. op.req.kind \in Guarded
    BY <1>2 DEF UndoFails, IInv, Base, StepInv
  <2>3. Range(SubSeq(kept, 1, n)) \subseteq Range(kept)
    BY <2>1, <2>2 DEF Range, Kept, Guarded
  <2>4. /\ torn' = torn \cup Left /\ "unfinished" \in Left
        /\ op.req.kind = "sync" => "marker" \in Left
    BY <1>2 DEF UndoFails, Left
  <2> QED
    BY <1>2, <2>1, <2>3, <2>4, UndoKeeps DEF UndoFails
<1> QED
  BY <1>1, <1>2

(* What comes in between the steps of a mutation: no step is skipped, no    *)
(* reason forgotten, and what agreed before does so, or a reason is known.  *)
LEMMA ComesBetween ==
    ASSUME IInv, Types', UNCHANGED <<queue, snap, login, got, pending, late, synced>>,
           op'.at = op.at, op'.i = op.i, op'.ok = op.ok, op'.req = op.req,
           torn \subseteq torn', Unsettled \subseteq Unsettled', GatewayInv',
           disk'.sync = disk.sync, disk'.runtime = disk.runtime,
           Quiet' /\ AgreedIn(disk) => AgreedIn(disk'),
           Quiet' /\ SameLogin(disk, snap) => SameLogin(disk', snap),
           op.at \in Writing /\ Unsettled' \subseteq {"marker"} =>
               \A q \in Logins : DoneIn(disk, q, op.req.bundle) => DoneIn(disk', q, op.req.bundle)
    PROVE  IInv'
<1>0. Types /\ RequestInv /\ StepInv /\ GatewayInv /\ AgreeInv /\ StatusInv /\ VersionInv /\ MarkerInv
  BY DEF IInv, Base
<1>1. Quiet' => Quiet
  BY DEF Quiet
<1>2. RequestInv'
  BY <1>0 DEF RequestInv, Fits
<1>3. StepInv'
  BY <1>0 DEF StepInv, Place
<1>4. AgreeInv'
  <2>1. \A q : Written(q)' => Written(q)
    BY DEF Written
  <2>2. op.at \in Between /\ Quiet' => AgreedIn(disk')
    BY <1>0, <1>1 DEF AgreeInv
  <2>3. op.at \in Writing \cup {"undo"} /\ op.req.kind \in Guarded /\ Quiet' => AgreedIn(snap)
    BY <1>0, <1>1 DEF AgreeInv
  <2>4. op.at \in Writing \cup {"undo"} /\ op.req.kind \in Guarded \ Rewrites /\ Quiet' =>
          AgreedIn(disk') /\ SameLogin(disk', snap)
    BY <1>0, <1>1 DEF AgreeInv
  <2>5. op.at \in Writing /\ op.req.kind \in Rewrites /\ Unsettled' \subseteq {"marker"} =>
          \A p \in Logins : Written(p)' => DoneIn(disk', p, op.req.bundle)
    BY <1>0, <2>1 DEF AgreeInv
  <2> QED
    BY <2>2, <2>3, <2>4, <2>5 DEF AgreeInv
<1>5. StatusInv'
  <2>1. Told' => Told
    BY <1>1 DEF Told
  <2> QED
    BY <1>0, <1>1, <2>1 DEF StatusInv
<1>6. VersionInv' /\ MarkerInv'
  BY <1>0 DEF VersionInv, MarkerInv
<1> QED
  BY <1>2, <1>3, <1>4, <1>5, <1>6 DEF IInv, Base

LEMMA Disturbed ==
    ASSUME Types, NEW reason \in Reasons, NEW so \in BOOLEAN, Disturbs(reason, so)
    PROVE  /\ op' \in OpType /\ op'.at = op.at /\ op'.i = op.i /\ op'.ok = op.ok /\ op'.req = op.req
           /\ torn \subseteq torn' /\ torn' \subseteq Reasons
           /\ torn \ op.carry \subseteq torn' \ op'.carry
           /\ Unsettled \subseteq Unsettled'
           /\ so => reason \in torn' \ op'.carry
<1>1. op \in OpType /\ torn \subseteq Reasons
  BY DEF Types, OpTypes, OtherTypes
<1>2. /\ op' \in OpType /\ op'.at = op.at /\ op'.i = op.i /\ op'.ok = op.ok /\ op'.req = op.req
      /\ op'.carry = IF so THEN op.carry \ {reason} ELSE op.carry
  <2>1. CASE so
    <3>1. op' = [op EXCEPT !.carry = op.carry \ {reason}]
      BY <2>1 DEF Disturbs
    <3> QED
      BY <1>1, <2>1, <3>1 DEF OpType
  <2>2. CASE ~so
    BY <1>1, <2>2 DEF Disturbs
  <2> QED
    BY <2>1, <2>2
<1>3. torn' = IF so THEN torn \cup {reason} ELSE torn
  BY DEF Disturbs
<1> QED
  BY <1>1, <1>2, <1>3 DEF Unsettled

LEMMA ModelReadsKeeps == ASSUME IInv, ModelReads, trouble' \in 0..MaxTrouble PROVE IInv'
<1>0. Types /\ GatewayInv
  BY DEF IInv, Base
<1>1. /\ model' = "read" /\ copy' = disk.config
      /\ UNCHANGED <<disk, queue, op, snap, seen, login, got, pending, gateway, cache, requests, torn,
                     late, abandoned, synced>>
  BY DEF ModelReads, opVars, loginVars, gwVars, history
<1>2. Types'
  <2>1. disk.config \in Config
    BY <1>0 DEF Types, PlaceTypes, Disk
  <2> QED
    BY <1>0, <1>1, <2>1 DEF Types, PlaceTypes, OpTypes, LoginTypes, OtherTypes, FlagTypes
<1>3. GatewayInv' /\ Unsettled' = Unsettled
  BY <1>0, <1>1 DEF GatewayInv, Quiet, Unsettled
<1> QED
  BY <1>1, <1>2, <1>3, ComesBetween

LEMMA ModelWritesKeeps == ASSUME IInv, ModelWrites, trouble' = trouble PROVE IInv'
<1> DEFINE so == copy.auth # disk.config.auth
<1>0. Types /\ GatewayInv
  BY DEF IInv, Base
<1>1. /\ model' = "written" /\ disk' = [disk EXCEPT !.config = [copy EXCEPT !.model = TRUE]]
      /\ copy' = NoConfig /\ Disturbs("config", so)
      /\ UNCHANGED <<queue, snap, seen, login, got, pending, gateway, cache, requests, trouble,
                     late, abandoned, synced>>
  BY DEF ModelWrites, loginVars, gwVars, history
<1>2. disk \in Disk /\ copy \in Config
  BY <1>0 DEF Types, PlaceTypes
<1>3. [copy EXCEPT !.model = TRUE] \in Config /\ [copy EXCEPT !.model = TRUE].auth = copy.auth
  BY <1>2 DEF Config
<1>4. /\ disk' \in Disk /\ disk'.config.auth = copy.auth /\ disk'.shared = disk.shared
      /\ disk'.agent = disk.agent /\ disk'.runtime = disk.runtime /\ disk'.cli = disk.cli
      /\ disk'.sessions = disk.sessions /\ disk'.sync = disk.sync
  BY <1>1, <1>2, <1>3 DEF Disk
<1>5. /\ op' \in OpType /\ op'.at = op.at /\ op'.i = op.i /\ op'.ok = op.ok /\ op'.req = op.req
      /\ torn \subseteq torn' /\ torn' \subseteq Reasons
      /\ torn \ op.carry \subseteq torn' \ op'.carry
      /\ Unsettled \subseteq Unsettled'
      /\ so => "config" \in torn' \ op'.carry
  <2>1. "config" \in Reasons /\ so \in BOOLEAN
    BY DEF Reasons
  <2> HIDE DEF so
  <2> QED
    BY <1>0, <1>1, <2>1, Disturbed
<1>6. Types'
  BY <1>0, <1>1, <1>4, <1>5, NoOpIs DEF Types, PlaceTypes, OpTypes, LoginTypes, OtherTypes, FlagTypes
<1>7. GatewayInv'
  BY <1>0, <1>1, <1>4, <1>5 DEF GatewayInv, Quiet
<1>8. Quiet' \/ Unsettled' \subseteq {"marker"} => disk'.config.auth = disk.config.auth
  BY <1>4, <1>5 DEF Quiet, Unsettled
<1>9. Quiet' /\ AgreedIn(disk) => AgreedIn(disk')
  BY <1>4, <1>8 DEF AgreedIn
<1>10. Quiet' /\ SameLogin(disk, snap) => SameLogin(disk', snap)
  BY <1>4, <1>8 DEF SameLogin
<1>11. Unsettled' \subseteq {"marker"} => \A q \in Logins : DoneIn(disk, q, op.req.bundle) => DoneIn(disk', q, op.req.bundle)
  <2> SUFFICES ASSUME Unsettled' \subseteq {"marker"}, NEW q \in Logins, DoneIn(disk, q, op.req.bundle)
               PROVE  DoneIn(disk', q, op.req.bundle)
    OBVIOUS
  <2> QED
    BY <1>4, <1>8 DEF DoneIn, Logins
<1> QED
  BY <1>1, <1>4, <1>5, <1>6, <1>7, <1>9, <1>10, <1>11, ComesBetween

LEMMA RestartsKeeps ==
    ASSUME IInv, Restarts, model' \in {"idle", "read", "written"}, trouble' \in 0..MaxTrouble PROVE IInv'
<1> DEFINE so == op.at \in {"begin", "write", "rewrite", "undo"}
<1>0. Types /\ GatewayInv
  BY DEF IInv, Base
<1>1. /\ gateway' = "up" /\ cache' = ProfileIn(disk.runtime) /\ Disturbs("started", so)
      /\ UNCHANGED <<disk, queue, snap, seen, login, got, pending, copy, requests, late, abandoned, synced>>
  BY DEF Restarts, Loads, loginVars, history
<1>2. /\ op' \in OpType /\ op'.at = op.at /\ op'.i = op.i /\ op'.ok = op.ok /\ op'.req = op.req
      /\ torn \subseteq torn' /\ torn' \subseteq Reasons
      /\ Unsettled \subseteq Unsettled'
      /\ so => "started" \in torn' \ op'.carry
  <2>1. "started" \in Reasons /\ so \in BOOLEAN
    BY DEF Reasons
  <2> HIDE DEF so
  <2> QED
    BY <1>0, <1>1, <2>1, Disturbed
<1>3. disk.runtime \in Bundle \cup {None}
  BY <1>0 DEF Types, PlaceTypes, Disk
<1>4. Types'
  <2>1. cache' \in Profile \cup {None}
    BY <1>1, <1>3, Constants DEF ProfileIn
  <2> QED
    BY <1>0, <1>1, <1>2, <2>1 DEF Types, PlaceTypes, OpTypes, LoginTypes, OtherTypes, FlagTypes
<1>5. GatewayInv'
  <2>1. op.at \in Between \cup Writing \cup {"undo"}
    BY <1>0 DEF Types, OpTypes, OpType
  <2> QED
    BY <1>1, <1>2, <2>1 DEF GatewayInv, Between, Writing
<1> QED
  BY <1>1, <1>2, <1>4, <1>5, ComesBetween

LEMMA GatewayPinsKeeps == ASSUME IInv, GatewayPins, trouble' = trouble PROVE IInv'
<1>0. Types /\ GatewayInv
  BY DEF IInv, Base
<1>1. /\ gateway = "up" /\ cache # None /\ disk' = [disk EXCEPT !.sessions = cache]
      /\ UNCHANGED <<queue, op, snap, seen, login, got, pending, model, copy, gateway, cache, requests, trouble,
                     torn, late, abandoned, synced>>
  BY DEF GatewayPins, opVars, loginVars, modelVars, gwVars, history
<1>2. disk \in Disk /\ cache \in Profile
  BY <1>0, <1>1 DEF Types, PlaceTypes, OtherTypes
<1>3. /\ disk' \in Disk /\ disk'.config = disk.config /\ disk'.shared = disk.shared
      /\ disk'.agent = disk.agent /\ disk'.runtime = disk.runtime /\ disk'.cli = disk.cli
      /\ disk'.sessions = cache /\ disk'.sync = disk.sync
  BY <1>1, <1>2 DEF Disk
<1>4. Types'
  BY <1>0, <1>1, <1>3 DEF Types, PlaceTypes, OpTypes, LoginTypes, OtherTypes, FlagTypes
<1>5. GatewayInv' /\ Unsettled' = Unsettled
  BY <1>0, <1>1, <1>3 DEF GatewayInv, Quiet, Unsettled
<1>6. Quiet' /\ AgreedIn(disk) => AgreedIn(disk')
  <2> SUFFICES ASSUME Quiet', AgreedIn(disk) PROVE AgreedIn(disk')
    OBVIOUS
  <2>1. cache = ProfileIn(disk.runtime)
    BY <1>0, <1>1 DEF GatewayInv, Quiet
  <2> QED
    BY <1>3, <2>1 DEF AgreedIn
<1>7. Quiet' /\ SameLogin(disk, snap) => SameLogin(disk', snap)
  BY <1>3 DEF SameLogin
<1>8. op.at \in Writing => ~(Unsettled' \subseteq {"marker"})
  BY <1>0, <1>1, <1>5 DEF GatewayInv, Unsettled, Writing
<1> QED
  BY <1>1, <1>3, <1>4, <1>5, <1>6, <1>7, <1>8, ComesBetween

LEMMA CrashKeeps == ASSUME IInv, Crash, trouble' \in 0..MaxTrouble PROVE IInv'
<1> DEFINE so == op.at \in {"write", "rewrite", "undo"}
<1>0. Types /\ RequestInv /\ StepInv /\ GatewayInv /\ AgreeInv /\ StatusInv /\ VersionInv /\ MarkerInv
  BY DEF IInv, Base
<1>1. /\ op' = NoOp /\ queue' = <<>> /\ snap' = NoDisk /\ seen' = NoConfig
      /\ login' = [l \in Login |-> IF login[l] \in Waiting THEN "gone" ELSE login[l]]
      /\ pending' = None /\ model' = "idle" /\ copy' = NoConfig
      /\ torn' = IF so THEN torn \cup Left ELSE torn
      /\ abandoned' = (abandoned \/ gateway = "down")
      /\ UNCHANGED <<disk, got, gateway, cache, requests, late, synced>>
  BY DEF Crash, gwVars
<1>2. op'.at = "idle" /\ op'.req.kind = "clear" /\ op'.req.bundle = None
  BY <1>1, NoOpIs
<1>3. "unfinished" \in Left /\ Left \subseteq Reasons /\ (op.req.kind = "sync" => "marker" \in Left)
  BY DEF Left, Reasons
<1>4. op.at \in Between \cup Writing \cup {"undo"} /\ (op.at \in Between <=> ~so)
  BY <1>0 DEF Types, OpTypes, OpType, Between, Writing
<1> HIDE DEF so
<1>5. torn \subseteq torn' /\ torn' \subseteq Reasons /\ (so => ~Quiet')
  BY <1>0, <1>1, <1>3 DEF Types, OtherTypes, Quiet
<1>6. Types'
  <2>1. queue' \in Seq(Request)
    BY <1>1
  <2>2. LoginTypes'
    BY <1>0, <1>1 DEF Types, LoginTypes, Status
  <2>3. abandoned' \in BOOLEAN
    BY <1>1
  <2> QED
    BY <1>0, <1>1, <1>5, <2>1, <2>2, <2>3, NoOpIs DEF Types, PlaceTypes, OpTypes, OtherTypes, FlagTypes
<1>7. RequestInv'
  <2>1. Fits(op.req)'
    BY <1>2 DEF Fits
  <2>2. DOMAIN queue' = {}
    BY <1>1
  <2> QED
    BY <2>1, <2>2 DEF RequestInv
<1>8. StepInv' /\ VersionInv'
  BY <1>2 DEF StepInv, VersionInv, Writing
<1>9. GatewayInv'
  <2> SUFFICES ASSUME gateway = "up", Quiet' PROVE cache = ProfileIn(disk.runtime)
    BY <1>1, <1>2 DEF GatewayInv
  <2>1. Quiet
    BY <1>5 DEF Quiet
  <2> QED
    BY <1>0, <2>1 DEF GatewayInv, Quiet
<1>10. AgreeInv'
  <2>1. Quiet' => Quiet /\ op.at \in Between
    BY <1>4, <1>5 DEF Quiet
  <2> QED
    BY <1>0, <1>1, <1>2, <2>1 DEF AgreeInv, Writing
<1>11. StatusInv'
  BY <1>1, <1>2 DEF StatusInv, Told, Writing
<1>12. MarkerInv'
  <2> SUFFICES ASSUME "marker" \notin torn' PROVE disk.sync \in synced \cup {None}
    BY <1>1, <1>2 DEF MarkerInv, Writing
  <2>1. "marker" \notin torn /\ (op.at \in Between \/ op.req.kind # "sync")
    BY <1>1, <1>3, <1>4
  <2> QED
    BY <1>0, <2>1 DEF MarkerInv
<1> QED
  BY <1>6, <1>7, <1>8, <1>9, <1>10, <1>11, <1>12 DEF IInv, Base

LEMMA NextIInv == IInv /\ [Next]_vars => IInv'
<1> SUFFICES ASSUME IInv, [Next]_vars PROVE IInv'
  OBVIOUS
<1>1. /\ trouble \in 0..MaxTrouble /\ trouble \in Nat /\ model \in {"idle", "read", "written"}
      /\ \A n \in 0..MaxTrouble : n > 0 => n - 1 \in 0..MaxTrouble
  BY Constants DEF IInv, Base, Types, OtherTypes
<1>2. ASSUME NEW kind \in Kinds \ {"login"}, NEW b \in Bundle \cup {None}, NEW v \in 0..MaxVersion, Ask(kind, b, v),
             kind \in {"import", "sync"} => b \in Bundle, kind \in {"clear", "openai", "apikey"} => b = None,
             kind = "sync" => v \in 1..MaxVersion
      PROVE  IInv'
  <2> DEFINE r == [login |-> None, kind |-> kind, bundle |-> b, version |-> v]
  <2>1. r \in Request /\ r.kind # "login"
    BY DEF Request
  <2>2. Fits(r)
    BY <1>2 DEF Fits
  <2>3. Asks(r) /\ trouble' = trouble
    BY <1>2 DEF Ask, Asks
  <2> HIDE DEF r
  <2> QED
    BY <2>1, <2>2, <2>3, AsksKeeps
<1>3. ASSUME NEW b \in Bundle, Import(b) PROVE IInv'
  BY <1>2, <1>3, Constants DEF Import, Kinds
<1>4. ASSUME NEW b \in Bundle, NEW v \in 1..MaxVersion, Sync(b, v) PROVE IInv'
  <2>1. v \in 0..MaxVersion
    BY Constants
  <2> QED
    BY <1>2, <1>4, <2>1 DEF Sync, Kinds
<1>5. ASSUME NEW kind \in {"clear", "openai", "apikey"}, ClearOrSet(kind) PROVE IInv'
  <2>1. 0 \in 0..MaxVersion
    BY Constants
  <2> QED
    BY <1>2, <1>5, <2>1 DEF ClearOrSet, Kinds
<1>6. ASSUME NEW l \in Login, StartLogin(l) \/ CodeGiven(l) \/ LoginFails(l) \/ \E b \in Bundle : Authorized(l, b)
      PROVE  IInv'
  BY <1>6, LoginsKeep
<1>7. CASE Mutates
  <2>1. CASE Takes
    BY <2>1, TakesKeeps DEF Takes
  <2>2. CASE Stops
    BY <2>2, StopsKeeps DEF Stops
  <2>3. CASE Begins
    BY <2>3, BeginsKeeps DEF Begins
  <2>4. CASE ReadsConfig
    BY <2>4, ReadsConfigKeeps DEF ReadsConfig
  <2>5. CASE Writes
    BY <2>5, WritesKeeps DEF Writes
  <2>6. CASE Undoes
    BY <2>6, UndoesKeeps DEF Undoes
  <2>7. CASE Starts
    BY <2>7, StopOrStartKeeps DEF Starts
  <2> QED
    BY <1>7, <2>1, <2>2, <2>3, <2>4, <2>5, <2>6, <2>7 DEF Mutates
<1>8. CASE ModelWrites
  BY <1>8, ModelWritesKeeps DEF ModelWrites
<1>9. CASE ModelRestarts
  BY <1>1, <1>9, RestartsKeeps DEF ModelRestarts
<1>10. CASE GatewayPins
  BY <1>10, GatewayPinsKeeps DEF GatewayPins
<1>11. CASE trouble > 0 /\ trouble' = trouble - 1 /\ Trouble
  <2>1. trouble' \in 0..MaxTrouble
    BY <1>1, <1>11
  <2>2. CASE StopFails \/ StartFails
    BY <2>1, <2>2, StopOrStartKeeps
  <2>3. CASE BeginFails
    BY <2>1, <2>3, BeginFailsKeeps
  <2>4. CASE WriteFails
    BY <2>1, <2>4, WriteFailsKeeps
  <2>5. CASE UndoFails
    BY <2>1, <2>5, UndoesKeeps
  <2>6. CASE ModelReads
    BY <2>1, <2>6, ModelReadsKeeps
  <2>7. CASE GatewayRestart
    BY <1>1, <2>1, <2>7, RestartsKeeps DEF GatewayRestart
  <2>8. CASE Crash
    BY <2>1, <2>8, CrashKeeps
  <2> QED
    BY <1>11, <2>2, <2>3, <2>4, <2>5, <2>6, <2>7, <2>8 DEF Trouble
<1>12. CASE UNCHANGED vars
  <2>1. /\ UNCHANGED <<disk, queue, op, snap, seen, login, got, pending, model, copy, gateway, cache, requests,
                       trouble, torn, late, abandoned, synced>>
    BY <1>12 DEF vars, opVars, loginVars, modelVars, gwVars, history
  <2>2. Types' /\ GatewayInv' /\ Unsettled' = Unsettled
    BY <2>1 DEF IInv, Base, Types, PlaceTypes, OpTypes, LoginTypes, OtherTypes, FlagTypes, GatewayInv, Quiet, Unsettled
  <2> QED
    BY <2>1, <2>2, ComesBetween
<1> QED
  BY <1>3, <1>4, <1>5, <1>6, <1>7, <1>8, <1>9, <1>10, <1>11, <1>12 DEF Next

LEMMA Invariant == Spec => []IInv
  BY InitIInv, NextIInv, PTL DEF Spec

(* Every place, the queue, the mutation and the sessions of device logins   *)
(* keep their types whatever happens in between.                            *)
THEOREM TypeCorrect == Spec => []TypeOK
<1>1. IInv => TypeOK
  <2> SUFFICES ASSUME IInv PROVE TypeOK
    OBVIOUS
  <2>1. PlaceTypes /\ OpTypes /\ LoginTypes /\ OtherTypes /\ FlagTypes
    BY DEF IInv, Base, Types
  <2>2. /\ disk.shared \in Bundle \cup {None} /\ disk.agent \in Bundle \cup {None}
        /\ disk.runtime \in Bundle \cup {None} /\ disk.config \in Config
        /\ disk.cli \in [tokens : Bundle \cup {None}, mode : {"chatgpt", "apikey", "none"}, key : BOOLEAN]
        /\ disk.sessions \in Profile \cup {None} /\ disk.sync \in Marker \cup {None}
    BY <2>1 DEF PlaceTypes, Disk, CliState
  <2>3. Range(queue) \subseteq Request
    BY <2>1 DEF OpTypes, Range
  <2>4. /\ op.at \in {"idle", "stop", "begin", "write", "rewrite", "undo", "start"}
        /\ op.i \in 0..9 /\ op.req \in Request /\ op.carry \subseteq Reasons
    BY <2>1 DEF OpTypes, OpType, Between, Writing
  <2> QED
    BY <2>1, <2>2, <2>3, <2>4 DEF TypeOK, PlaceTypes, LoginTypes, OtherTypes, FlagTypes, Status
<1> QED
  BY <1>1, Invariant, PTL

(* Wherever a mutation fails, is undone or is cut off, and whatever comes   *)
(* between its steps: a gateway that runs has one login in all the places,  *)
(* or a known reason for them to disagree has not been settled yet.         *)
THEOREM GatewayAgrees == Spec => []GatewayRunsAgreed
<1>1. IInv => GatewayRunsAgreed
  BY DEF IInv, Base, Types, OpTypes, OpType, GatewayInv, AgreeInv, GatewayRunsAgreed, Agreed, AgreedIn, Quiet,
         Between, Writing
<1> QED
  BY <1>1, Invariant, PTL

(* The login that the status action calls connected is the one that is      *)
(* there, however mutations, joins, failures and crashes interleave.        *)
THEOREM StatusTrue == Spec => []StatusIsTrue
<1>1. IInv => StatusIsTrue
  BY DEF IInv, StatusInv, StatusIsTrue, Told, Quiet, Between
<1> QED
  BY <1>1, Invariant, PTL

(* The version marker that stands between two mutations is that of a sync   *)
(* that was applied, unless one was cut off or could not be undone.         *)
THEOREM MarkerEarned == Spec => []MarkerIsEarned
<1>1. IInv => MarkerIsEarned
  BY DEF IInv, MarkerInv, MarkerIsEarned, Between
<1> QED
  BY <1>1, Invariant, PTL

(* No applied sync lowers the version of the profile that the places hold:  *)
(* the marker which it overwrites is the one that it was compared with.     *)
THEOREM VersionsMonotonic == Spec => SyncMonotonic
<1> DEFINE Lowers == /\ disk.sync # None /\ disk'.sync # None /\ disk'.sync.profile = disk.sync.profile
                     /\ disk'.sync.version < disk.sync.version
           Allowed == op.at = "undo" \/ ProfileIn(snap.runtime) # disk.sync.profile
           Body == disk.sync # None /\ disk'.sync # None /\ disk'.sync.profile = disk.sync.profile
                   /\ disk'.sync.version < disk.sync.version
                   => op.at = "undo" \/ ProfileIn(snap.runtime) # disk.sync.profile
<1>1. Next => disk'.sync = disk.sync \/ op.at = "undo" \/ Writes
  <2> SUFFICES ASSUME Next, ~Writes, op.at # "undo" PROVE disk'.sync = disk.sync
    OBVIOUS
  <2>1. CASE ModelWrites
    BY <2>1 DEF ModelWrites
  <2>2. CASE GatewayPins
    BY <2>2 DEF GatewayPins
  <2>3. CASE ModelRestarts \/ GatewayRestart
    BY <2>3 DEF ModelRestarts, GatewayRestart, Restarts
  <2>4. CASE Mutates
    BY <2>4 DEF Mutates, Takes, Stops, Begins, ReadsConfig, Undoes, Starts
  <2>5. CASE Trouble
    BY <2>3, <2>5 DEF Trouble, StopFails, BeginFails, WriteFails, UndoFails, StartFails, ModelReads, Crash
  <2>6. CASE ~(ModelWrites \/ GatewayPins \/ ModelRestarts \/ Mutates \/ Trouble)
    BY <2>6 DEF Next, Import, Sync, ClearOrSet, Ask, Asks, StartLogin, CodeGiven, LoginFails, Authorized
  <2> QED
    BY <2>1, <2>2, <2>3, <2>4, <2>5, <2>6
<1>2. IInv /\ Lowers /\ disk'.sync = disk.sync => FALSE
  BY Constants DEF IInv, Base, Types, PlaceTypes, Disk, Marker
<1>3. IInv /\ Writes /\ Lowers => Allowed
  <2> SUFFICES ASSUME IInv, Writes, Lowers PROVE Allowed
    OBVIOUS
  <2>0. Types /\ RequestInv /\ StepInv /\ VersionInv
    BY DEF IInv, Base
  <2> DEFINE r == op.req
             p == Order(r.kind)[op.i]
  <2>1. op.at \in Writing /\ disk' = With(r, p)
    BY DEF Writes, Place, Writing
  <2>2. r \in Request /\ r.kind \in Kinds /\ Fits(r)
    BY <2>0 DEF Types, OpTypes, OpType, Request, RequestInv
  <2>3. op.i \in 1..Len(Order(r.kind))
    BY <2>0, <2>1 DEF StepInv
  <2>4. p \in Logins \cup {"sync", "check"} /\ (p = "sync" <=> op.i = 7 /\ r.kind \in {"sync", "clear"})
    BY <2>2, <2>3, OrderIs
  <2> HIDE DEF p
  <2>5. p = "sync"
    <3>1. p # "sync" => disk'.sync = disk.sync
      BY <2>0, <2>1, <2>2, <2>4, WithIs
    <3> QED
      BY <1>2, <3>1
  <2>6. r.kind = "sync"
    <3>1. r.kind = "clear" => disk'.sync = None
      BY <2>0, <2>1, <2>2, <2>4, <2>5, WithIs
    <3> QED
      BY <2>4, <2>5, <3>1
  <2>7. disk'.sync.version = r.version /\ disk'.sync.profile = ProfileOf[r.bundle]
    BY <2>0, <2>1, <2>2, <2>4, <2>5, <2>6, WithIs
  <2>8. ~Known(snap, r) /\ disk.sync = snap.sync
    BY <2>0, <2>1, <2>4, <2>5, <2>6 DEF VersionInv
  <2>9. disk.sync.version >= r.version /\ disk.sync \in Marker
    <3>1. disk.sync \in Marker /\ r.version \in 1..MaxVersion
      BY <2>0, <2>2, <2>6 DEF Types, PlaceTypes, Disk, Fits
    <3> QED
      BY <2>7, <3>1, Constants DEF Marker
  <2>10. SavedIn(snap) = None \/ ProfileIn(SavedIn(snap)) # snap.sync.profile
    BY <2>7, <2>8, <2>9 DEF Known
  <2>11. snap.runtime # None => SavedIn(snap) = snap.runtime
    BY DEF SavedIn
  <2>12. ProfileIn(None) = None /\ disk.sync.profile # None
    BY <2>9, Constants DEF ProfileIn, Marker
  <2> QED
    BY <2>8, <2>10, <2>11, <2>12
<1>4. IInv /\ [Next]_vars => [Body]_vars
  BY <1>1, <1>2, <1>3
<1> QED
  BY <1>4, Invariant, PTL DEF Spec, SyncMonotonic
=============================================================================
