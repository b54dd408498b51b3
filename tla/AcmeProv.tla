------------------------------ MODULE AcmeProv ------------------------------
(***************************************************************************)
(* Certificates: the daily renewal pass and the runs started from the      *)
(* panel (acmeprov/acmeprov.go, status.go), the order and the installation *)
(* of a certificate (issue.go), certificates bought by the operator        *)
(* (manual.go), and the choice of the best file (sslcert/sslcert.go).      *)
(*                                                                         *)
(* The clock counts days, a pass is due every day.  A certificate is what  *)
(* sslcert.Scan looks at: its site, its last day, who issued it.  The ssl  *)
(* directory holds certificates under their own names, scratch files that  *)
(* are about to get one, the symlink ssl_certificate.pem that the mail     *)
(* services are configured with, and the name ssl_certificate.pem.tmp      *)
(* under which it is prepared.  The dialogue with the certificate          *)
(* authority is one step that yields a certificate or fails.  The kicks of *)
(* the web and the DNS applier are theirs (WebSync, DnsApply); both loops  *)
(* have a tick of their own.                                               *)
(***************************************************************************)
EXTENDS Integers, FiniteSets

CONSTANTS
    Site, Primary,      \* the names the web tier serves, and the box's own
    Validity,           \* days a certificate from the ACME authority is valid
    RenewBefore,        \* renewBefore, in days
    Terms,              \* days a certificate from elsewhere may be valid
    TmpSortsLast,       \* ssl_certificate.pem.tmp sorts after the certificates of Primary
    MaxDay,             \* bound of the model: the clock
    MaxRequests,        \* bound of the model: runs, installations and kicks from the panel
    MaxFailures,        \* bound of the model: failing orders, scans, writes and commands
    MaxCrashes          \* bound of the model: restarts of managerd

ASSUME AcmeProvAssumption ==
    /\ IsFiniteSet(Site) /\ Primary \in Site
    /\ Validity \in Nat /\ RenewBefore \in Nat /\ Terms \subseteq Nat
    /\ TmpSortsLast \in BOOLEAN
    /\ MaxDay \in Nat /\ MaxRequests \in Nat /\ MaxFailures \in Nat /\ MaxCrashes \in Nat

VARIABLES
    day,
    due,            \* the renewal loop's timer has fired, or a kick is pending
    lease,          \* the lease "acme": free, ours, or a dead process's
    files,          \* certificates under their final names
    temps,          \* certificates under the name of a scratch file
    tmp,            \* ssl_certificate.pem.tmp
    link,           \* where ssl_certificate.pem points
    serving,        \* the certificate the mail services have loaded
    thread,         \* the renewal loop, a run and an installation from the panel
    requests, failures, crashes,
    unlinked,       \* history: an installation was cut off before the symlink was looked at
    unrestarted,    \* history: the services were not restarted after the symlink moved
    scratched,      \* history: the symlink was pointed at a scratch name
    aged,           \* history: threads, and "tmp", whose file was chosen before another was installed
    stale           \* history: the symlink was moved to such a file

dir == <<files, temps, tmp, link>>
budget == <<requests, failures, crashes>>
history == <<unlinked, unrestarted, scratched, aged, stale>>
vars == <<day, due, lease, files, temps, tmp, link, serving, thread, requests, failures, crashes,
          unlinked, unrestarted, scratched, aged, stale>>

Thread == {"loop", "run", "install"}
Cert == [site : Site, expires : Int, by : {"self", "acme", "operator"}]

SelfSigned == [site |-> Primary, expires |-> MaxDay + 1, by |-> "self"]
NoCert == [site |-> Primary, expires |-> -1, by |-> "self"]

(* Names in the directory; a scratch file's is random and its thread's own. *)
Final(c) == [at |-> "final", cert |-> c, of |-> "none"]
Scratch(c, t) == [at |-> "scratch", cert |-> c, of |-> t]
TmpName == [at |-> "tmp", cert |-> NoCert, of |-> "none"]
NoTmp == [target |-> TmpName, there |-> FALSE]

Idle == [pc |-> "idle", todo |-> {}, cert |-> NoCert, got |-> FALSE, target |-> TmpName]

TypeOK ==
    /\ day \in 0 .. MaxDay /\ due \in BOOLEAN
    /\ lease \in {"free", "ours", "dead"}
    /\ files \subseteq Cert /\ serving \in Cert
    /\ \A n \in temps : n.at = "scratch" /\ n.cert \in Cert
    /\ tmp.there \in BOOLEAN
    /\ thread \in [Thread -> [pc : {"idle", "lock", "order", "write", "rescan", "remove", "symlink",
                                    "rename", "restart"},
                              todo : SUBSET Site, cert : Cert, got : BOOLEAN,
                              target : [at : {"final", "scratch", "tmp"}, cert : Cert,
                                        of : Thread \cup {"none"}]]]
    /\ aged \subseteq Thread \cup {"tmp"}
    /\ unlinked \in BOOLEAN /\ unrestarted \in BOOLEAN /\ scratched \in BOOLEAN /\ stale \in BOOLEAN

-----------------------------------------------------------------------------
(* sslcert.Scan: regular files, whatever their names, and symlinks to them. *)

Exists(n) == (n.at = "final" /\ n.cert \in files) \/ n \in temps

(* What a name leads to, if it leads to a file. *)
Follow(n) == IF Exists(n) THEN {n.cert}
             ELSE IF n = TmpName /\ Exists(tmp.target) THEN {tmp.target.cert} ELSE {}

Scan(s) == {n \in {Final(c) : c \in files} \cup temps \cup {TmpName} : \E c \in Follow(n) : c.site = s}

CertAt(n) == CHOOSE c \in Follow(n) : TRUE

Valid(c) == day <= c.expires

(* The tie-break by file name; scratch files begin with a dot, and the     *)
(* order between two fingerprints or two random names is fixed here.       *)
NameLater(m, n) ==
    LET place(x) == CASE x.at = "scratch" -> 0 [] x.at = "final" -> 2
                      [] OTHER -> IF TmpSortsLast THEN 3 ELSE 1
        rank(x) == 4 * place(x) + (IF x.cert.by = "operator" THEN 2 ELSE 0) + (IF x.of # "none" THEN 1 ELSE 0)
    IN  rank(m) > rank(n)

better(m, n) ==
    LET a == CertAt(m)  b == CertAt(n) IN
    IF Valid(a) # Valid(b) THEN Valid(a)
    ELSE IF (a.by = "self") # (b.by = "self") THEN b.by = "self"
    ELSE IF a.expires # b.expires THEN a.expires > b.expires
    ELSE NameLater(m, n)

Best(s) == {m \in Scan(s) : \A n \in Scan(s) \ {m} : better(m, n)}

(* Mutant: a certificate is renewed once it has expired. *)
NeedsLate(s) ==
    ~\E m \in Best(s) : CertAt(m).by # "self" /\ Valid(CertAt(m))

(* The sites that provisionAll does not skip. *)
Needs(s) ==
    ~\E m \in Best(s) : CertAt(m).by # "self" /\ Valid(CertAt(m)) /\ day + RenewBefore < CertAt(m).expires

-----------------------------------------------------------------------------
Init ==
    /\ day = 0 /\ due = TRUE /\ lease = "free"
    /\ files = {SelfSigned} /\ temps = {} /\ tmp = NoTmp
    /\ link = Final(SelfSigned) /\ serving = SelfSigned
    /\ thread = [t \in Thread |-> Idle]
    /\ requests = 0 /\ failures = 0 /\ crashes = 0
    /\ unlinked = FALSE /\ unrestarted = FALSE /\ scratched = FALSE /\ aged = {} /\ stale = FALSE

Goto(t, step) == thread' = [thread EXCEPT ![t] = step]

(* The end of a run; the loop's pass also gives its lease back. *)
Finish(t) ==
    /\ Goto(t, Idle)
    /\ lease' = IF t = "loop" THEN "free" ELSE lease

Fail == failures < MaxFailures /\ failures' = failures + 1 /\ UNCHANGED <<requests, crashes>>
Ask == requests < MaxRequests /\ requests' = requests + 1 /\ UNCHANGED <<failures, crashes>>

(* A day is long enough for what was started to end, an order within its   *)
(* perDomainTimeout, and for a lease to lapse.                             *)
DayPasses ==
    /\ day < MaxDay
    /\ ~due /\ \A t \in Thread : thread[t].pc = "idle"
    /\ day' = day + 1
    /\ due' = TRUE
    /\ lease' = IF lease = "dead" THEN "free" ELSE lease
    /\ UNCHANGED <<dir, serving, thread, budget, history>>

LeaseLapses ==
    /\ lease = "dead"
    /\ lease' = "free"
    /\ UNCHANGED <<day, due, dir, serving, thread, budget, history>>

(* The configuration of a DNS provider changed: Kick. *)
Kick ==
    /\ Ask
    /\ due' = TRUE
    /\ UNCHANGED <<day, lease, dir, serving, thread, history>>

(* renewalPass begins; without the lease there is no pass until tomorrow. *)
RenewalPass ==
    /\ due /\ thread["loop"].pc = "idle"
    /\ due' = FALSE
    /\ IF lease = "dead"
       THEN UNCHANGED <<lease, thread>>
       ELSE lease' = "ours" /\ Goto("loop", [Idle EXCEPT !.pc = "lock", !.todo = Site])
    /\ UNCHANGED <<day, dir, serving, budget, history>>

StartRun ==
    /\ thread["run"].pc = "idle"
    /\ Ask
    /\ \E limit \in SUBSET Site \ {{}} : Goto("run", [Idle EXCEPT !.pc = "lock", !.todo = limit])
    /\ UNCHANGED <<day, due, lease, dir, serving, history>>

(* runMu: one run at a time. *)
RunMuFree == \A t \in {"loop", "run"} : thread[t].pc \in {"idle", "lock"}

(* provisionAll looks at the certificates and decides. *)
Provision(t) ==
    /\ thread[t].pc = "lock" /\ RunMuFree
    /\ Goto(t, [thread[t] EXCEPT !.pc = "order", !.todo = {s \in thread[t].todo : Needs(s)}])
    /\ UNCHANGED <<day, due, lease, dir, serving, budget, history>>

(* The sites or the certificates cannot be read: no pass. *)
ScanFails(t) ==
    /\ thread[t].pc = "lock" /\ RunMuFree
    /\ Fail
    /\ Finish(t)
    /\ UNCHANGED <<day, due, dir, serving, history>>

(* provisionOne up to the scratch file with the chain in it. *)
Order(t) ==
    /\ thread[t].pc = "order"
    /\ \E s \in thread[t].todo :
          LET c == [site |-> s, expires |-> day + Validity, by |-> "acme"] IN
          /\ temps' = temps \cup {Scratch(c, t)}
          /\ Goto(t, [thread[t] EXCEPT !.pc = "write", !.todo = thread[t].todo \ {s}, !.cert = c])
    /\ UNCHANGED <<day, due, lease, files, tmp, link, serving, budget, history>>

(* No solver for the site, or an error on the way: on to the next site.    *)
(* Without an account or the key no site is ordered for any more.          *)
OrderFails(t) ==
    /\ thread[t].pc = "order"
    /\ Fail
    /\ \E given_up \in {thread[t].todo} \cup {{s} : s \in thread[t].todo} :
          given_up # {} /\ Goto(t, [thread[t] EXCEPT !.todo = thread[t].todo \ given_up])
    /\ UNCHANGED <<day, due, lease, dir, serving, history>>

(* InstallManual, which takes no lock: the certificate is valid and ours. *)
InstallManual ==
    /\ thread["install"].pc = "idle"
    /\ Ask
    /\ \E s \in Site, term \in Terms :
          LET c == [site |-> s, expires |-> day + term, by |-> "operator"] IN
          /\ temps' = temps \cup {Scratch(c, "install")}
          /\ Goto("install", [Idle EXCEPT !.pc = "write", !.cert = c])
    /\ UNCHANGED <<day, due, lease, files, tmp, link, serving, history>>

(* The steps of postInstall that rest on a scan made before. *)
Relinking == {"remove", "symlink", "rename"}
Chosen == {t \in Thread : thread[t].pc \in Relinking}

AfterWrite(t, got) == [thread[t] EXCEPT !.pc = IF t = "install" THEN "rescan" ELSE "order", !.got = got]

(* writeCertFile: the scratch file gets its name. *)
InstallCert(t) ==
    /\ thread[t].pc = "write"
    /\ files' = files \cup {thread[t].cert}
    /\ temps' = temps \ {Scratch(thread[t].cert, t)}
    /\ Goto(t, AfterWrite(t, TRUE))
    /\ aged' = aged \cup Chosen \cup (IF tmp.there THEN {"tmp"} ELSE {})
    /\ UNCHANGED <<day, due, lease, tmp, link, serving, budget, unlinked, unrestarted, scratched, stale>>

InstallFails(t) ==
    /\ thread[t].pc = "write"
    /\ Fail
    /\ temps' = temps \ {Scratch(thread[t].cert, t)}
    /\ Goto(t, IF t = "install" THEN Idle ELSE AfterWrite(t, thread[t].got))
    /\ UNCHANGED <<day, due, lease, files, tmp, link, serving, history>>

(* The sites are done: postInstall, if anything was installed. *)
SitesDone(t) ==
    /\ thread[t].pc = "order" /\ thread[t].todo = {}
    /\ IF thread[t].got
       THEN Goto(t, [thread[t] EXCEPT !.pc = "rescan"]) /\ UNCHANGED lease
       ELSE Finish(t)
    /\ UNCHANGED <<day, due, dir, serving, budget, history>>

-----------------------------------------------------------------------------
(* postInstall *)

(* Mutant: a symlink that is there is taken for current. *)
RescanTrusting(t) ==
    /\ thread[t].pc = "rescan"
    /\ aged' = aged \ {t}
    /\ Finish(t)
    /\ UNCHANGED <<day, due, dir, serving, budget, unlinked, unrestarted, scratched, stale>>

(* The best certificate of the primary hostname; nothing to do if the      *)
(* symlink names its file.                                                 *)
Rescan(t) ==
    /\ thread[t].pc = "rescan"
    /\ aged' = aged \ {t}
    /\ IF link \in Best(Primary)
       THEN /\ Finish(t)
            /\ unlinked' = FALSE /\ stale' = FALSE
       ELSE /\ \E m \in Best(Primary) : Goto(t, [thread[t] EXCEPT !.pc = "remove", !.target = m])
            /\ UNCHANGED <<lease, unlinked, stale>>
    /\ UNCHANGED <<day, due, dir, serving, budget, unrestarted, scratched>>

(* The second scan, or an operation on the symlink, fails and is logged. *)
RelinkFails(t) ==
    /\ thread[t].pc \in {"rescan"} \cup Relinking
    /\ Fail
    /\ unlinked' = TRUE
    /\ Finish(t)
    /\ UNCHANGED <<day, due, dir, serving, unrestarted, scratched, aged, stale>>

(* Mutant: the symlink itself is removed to make room for the new one. *)
RemoveLink(t) ==
    /\ thread[t].pc = "remove"
    /\ link' = TmpName
    /\ tmp' = NoTmp
    /\ aged' = aged \ {"tmp"}
    /\ Goto(t, [thread[t] EXCEPT !.pc = "symlink"])
    /\ UNCHANGED <<day, due, lease, files, temps, serving, budget, unlinked, unrestarted, scratched,
                   stale>>

(* replaceSymlink, call by call. *)
RemoveTmp(t) ==
    /\ thread[t].pc = "remove"
    /\ tmp' = NoTmp
    /\ aged' = aged \ {"tmp"}
    /\ Goto(t, [thread[t] EXCEPT !.pc = "symlink"])
    /\ UNCHANGED <<day, due, lease, files, temps, link, serving, budget, unlinked, unrestarted,
                   scratched, stale>>

(* Symlink fails on a name that exists. *)
SymlinkTmp(t) ==
    /\ thread[t].pc = "symlink"
    /\ IF tmp = NoTmp
       THEN /\ tmp' = [target |-> thread[t].target, there |-> TRUE]
            /\ aged' = IF t \in aged THEN aged \cup {"tmp"} ELSE aged
            /\ Goto(t, [thread[t] EXCEPT !.pc = "rename"])
            /\ UNCHANGED lease
       ELSE Finish(t) /\ UNCHANGED <<tmp, aged>>
    /\ UNCHANGED <<day, due, files, temps, link, serving, budget, unlinked, unrestarted, scratched, stale>>

(* Rename moves what the name now is, and fails when it is gone. *)
RenameTmp(t) ==
    /\ thread[t].pc = "rename"
    /\ IF tmp = NoTmp
       THEN Finish(t) /\ UNCHANGED <<tmp, link, unlinked, scratched, aged, stale>>
       ELSE /\ link' = tmp.target
            /\ tmp' = NoTmp
            /\ Goto(t, [thread[t] EXCEPT !.pc = "restart"])
            /\ unlinked' = FALSE
            /\ scratched' = (tmp.target.at # "final")
            /\ stale' = ("tmp" \in aged)
            /\ aged' = aged \ {"tmp"}
            /\ UNCHANGED lease
    /\ UNCHANGED <<day, due, files, temps, serving, budget, unrestarted>>

(* The services open what the symlink leads to; one stands for the three. *)
Restart(t) ==
    /\ thread[t].pc = "restart"
    /\ serving' = IF Follow(link) = {} THEN NoCert ELSE CertAt(link)
    /\ unrestarted' = FALSE
    /\ Finish(t)
    /\ UNCHANGED <<day, due, dir, budget, unlinked, scratched, aged, stale>>

RestartFails(t) ==
    /\ thread[t].pc = "restart"
    /\ Fail
    /\ unrestarted' = TRUE
    /\ Finish(t)
    /\ UNCHANGED <<day, due, dir, serving, unlinked, scratched, aged, stale>>

(* A scratch file whose thread is gone; a name that leads nowhere goes on  *)
(* leading nowhere.                                                        *)
Orphan(n) == IF n \in temps THEN [n EXCEPT !.of = "none"] ELSE n

(* managerd stops and is started again, under the same identity or not;    *)
(* what it had in the directory stays there, and the first pass is due.    *)
Crash ==
    /\ crashes < MaxCrashes
    /\ crashes' = crashes + 1
    /\ thread' = [t \in Thread |-> Idle]
    /\ lease' \in IF lease = "ours" THEN {"ours", "dead"} ELSE {lease}
    /\ due' = TRUE
    /\ unlinked' = (unlinked \/ \E t \in Thread : \/ thread[t].got
                                                  \/ thread[t].pc \in {"write", "rescan"} \cup Relinking)
    /\ unrestarted' = (unrestarted \/ \E t \in Thread : thread[t].pc = "restart")
    /\ aged' = aged \ Thread
    /\ temps' = {Orphan(n) : n \in temps}
    /\ tmp' = [tmp EXCEPT !.target = Orphan(tmp.target)]
    /\ link' = Orphan(link)
    /\ UNCHANGED <<day, files, serving, requests, failures, scratched, stale>>

Run(t) == Provision(t) \/ ScanFails(t) \/ Order(t) \/ OrderFails(t) \/ SitesDone(t)

PostInstall(t) ==
    \/ Rescan(t) \/ RelinkFails(t) \/ RemoveTmp(t) \/ SymlinkTmp(t) \/ RenameTmp(t)
    \/ Restart(t) \/ RestartFails(t)

Next ==
    \/ DayPasses \/ LeaseLapses \/ Kick \/ RenewalPass \/ StartRun \/ InstallManual \/ Crash
    \/ \E t \in {"loop", "run"} : Run(t)
    \/ \E t \in Thread : InstallCert(t) \/ InstallFails(t) \/ PostInstall(t)

Spec == Init /\ [][Next]_vars

-----------------------------------------------------------------------------
Real(s) == {c \in {CertAt(n) : n \in Scan(s)} : c.by # "self"}

(* A site that has had a certificate keeps a valid one, whatever the       *)
(* operator starts, kicks or installs in between (certificates that last   *)
(* longer than the window), while no more daily attempts are lost to       *)
(* failures and restarts than the renewal window has to spare              *)
(* (acmeprov.go:42-45, :239).  A restart also costs one when the lease of  *)
(* the process that died keeps its successor's first pass from starting.   *)
CertificatesRenewed ==
    failures + crashes <= RenewBefore =>
        \A s \in Site : Real(s) # {} => \E c \in Real(s) : Valid(c)

(* At rest the mail services have loaded the best certificate of the       *)
(* primary hostname, and ssl_certificate.pem names its file (issue.go:     *)
(* 179-210).  The exceptions: nothing looks at the symlink again after an  *)
(* installation that was cut off before it did, or at the services after a *)
(* restart that failed, until another certificate is installed; the        *)
(* symlink is moved by whoever comes last, also if it chose first; and     *)
(* once every real certificate has expired the ranking moves on its own.   *)
MailServesBest ==
    (\A t \in Thread : thread[t].pc = "idle") =>
        /\ \/ unlinked \/ stale \/ scratched
           \/ link \in Best(Primary)
           \/ ~\E c \in Real(Primary) : Valid(c)
        /\ unrestarted \/ scratched \/ Follow(link) = {serving}

(* The path the mail services are configured with always leads to a        *)
(* certificate of the primary hostname, also between the calls of          *)
(* replaceSymlink (issue.go:212-219), unless a scan took a scratch file or *)
(* ssl_certificate.pem.tmp for a candidate, which listFiles only rules out *)
(* for ssl_certificate.pem itself (sslcert.go:163-166).                    *)
LinkResolves == scratched \/ \E c \in Follow(link) : c.site = Primary
=============================================================================
