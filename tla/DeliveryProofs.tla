--------------------------- MODULE DeliveryProofs ---------------------------
(***************************************************************************)
(* Theorems about Delivery, for any number of builds, of plan versions and *)
(* of faults.                                                              *)
(*                                                                         *)
(* Three facts carry the proofs.  An attempt directory is made once, so a  *)
(* lane has one plan job and one deploy job, and the published plan never  *)
(* changes again (Planned).  What a deploy job knows at each of its places *)
(* is true of the host and the channels (Knows), because nothing but that  *)
(* job writes them.  And the device's lock belongs to the one job that is  *)
(* between its reservation and the end of its executor (Owned).            *)
(***************************************************************************)
EXTENDS Delivery, FiniteSetTheorems, TLAPS

-----------------------------------------------------------------------------
(* Types. *)

Documents == Results \cup Records \cup Overall \cup {None}
Plans == Results \cup {None}
Ends == Overall \cup {None}

Builds == [receipts : SUBSET Prerequisites, artifact : [Channels -> Documents], meta : [Channels -> Documents],
           shown : Plans, unblocked : BOOLEAN, approved : Plans,
           ended : SUBSET Steps, passed : SUBSET Steps, noWrite : BOOLEAN]
Hosts == [directories : SUBSET Protected, executor : {"idle", "running", "ended"}, times : Nat, executed : Plans,
          report : Records \cup {None}, record : Records \cup {None}, chronology : Ends]

Early == {"begun", "reserve", "prepare", "spawn"}
Writing == {"post", "record", "persist"}
Telling == {"chronology", "chronology file", "chronology name"}
Places ==
    [s \in Steps |->
        CASE s = "plan" -> {"begun", "upload", "metadata"}
          [] s = "promotion" -> {"begun", "upload", "annotate", "bytes", "metadata"}
          [] s = "deploy" -> Early \cup {"child"} \cup Writing \cup {"receipt", "name"} \cup Telling \cup {"annotate"}
          [] s = "evidence" -> {"begun", "receipts"}]
AllPlaces == {"idle", "upload", "metadata", "bytes", "receipts", "child", "receipt", "name", "annotate"}
             \cup Early \cup Writing \cup Telling
JobStates == [step : Steps \cup {None}, pc : AllPlaces, value : Documents, code : {0, 2, 3},
              post : Ends, failed : BOOLEAN]

Typed ==
    /\ build \in [Lanes -> Builds]
    /\ host \in [Lanes -> Hosts]
    /\ job \in [Lanes -> JobStates]
    /\ slot \in Lanes \cup {None} /\ lock \in Lanes \cup {None}
    /\ faults \in 0 .. MaxFaults

\* A channel holds documents of its own kind.
ChannelsTyped(b) ==
    /\ \A c \in {"planning", "promotion", "promotion bytes"} : b.artifact[c] \in Plans /\ b.meta[c] \in Plans
    /\ \A c \in {"record", "durable"} : b.artifact[c] \in Records \cup {None} /\ b.meta[c] \in Records \cup {None}
    /\ b.artifact["chronology"] \in Ends /\ b.meta["chronology"] \in Ends

-----------------------------------------------------------------------------
(* The invariant of one lane, over its build b, its host h and its job j. *)

\* A job is idle or at a place of its step.
Placed(j) == IF j.pc = "idle" THEN j = Idle ELSE j.step \in Steps /\ j.pc \in Places[j.step]

\* One attempt of the protected steps.
Attempted(b, h, j) ==
    /\ \A s \in Protected : j.step = s \/ s \in b.ended => s \in h.directories
    /\ b.passed \subseteq b.ended
    /\ h.times <= 1
    /\ "deploy" \notin h.directories => h.times = 0 /\ h.record = None /\ h.chronology = None
    /\ j.step = "deploy" /\ j.pc \in Early => h.times = 0
    /\ h.executor = "running" => h.times = 1
    /\ b.noWrite => h.times = 0 /\ j.step # "deploy" /\ "deploy" \in h.directories

Published(b) == b.meta["planning"]

\* The plan is published once, and all that follows is about that plan.
Planned(b, h, j) ==
    /\ Published(b) # None =>
          b.artifact["planning"] = Published(b) /\ j.step # "plan" /\ "plan" \in h.directories
    /\ j.step = "plan" /\ j.pc # "begun" => j.value \in Results
    /\ j.step = "plan" /\ j.pc = "metadata" => b.artifact["planning"] = j.value
    /\ {b.shown, b.approved} \subseteq {None, Published(b)}
    /\ j.step \in {"promotion", "deploy"} /\ j.pc # "begun" => j.value = Published(b) /\ j.value # None
    /\ j.step = "deploy" /\ j.pc \in {"reserve", "prepare", "spawn", "child", "post", "record"} \cup Telling
          => j.value.kind = "plan"
    /\ h.times > 0 => h.executed = Published(b) /\ h.executed # None

\* What is on the host is what was executed, and what is in the channels is what
\* is on the host.
Recorded(b, h, j) ==
    /\ h.report # None => h.report.outcome # "COMPLIANT" /\ h.report.result = h.executed /\ h.times = 1
    /\ h.record # None /\ h.record.outcome # "COMPLIANT" => h.record.result = h.executed /\ h.times = 1
    /\ b.artifact["durable"] # None => b.artifact["durable"] = h.record
    /\ b.artifact["chronology"] # None => b.artifact["chronology"] = h.chronology

Deserved(l, record) ==
    record.outcome \in {"SUCCEEDED", "COMPLIANT"} \cup (IF l \in Singles THEN {"RECOVERED"} ELSE {})
IsEstablished(b, record) == b.artifact["durable"] = record /\ b.meta["durable"] = record
IsTold(b, h) ==
    h.chronology = "SUCCEEDED" /\ b.artifact["chronology"] = "SUCCEEDED" /\ b.meta["chronology"] = "SUCCEEDED"

\* A deploy that may pass.
Complete(l, b, h) ==
    /\ h.record # None /\ Deserved(l, h.record) /\ IsEstablished(b, h.record)
    /\ h.record.outcome # "COMPLIANT" /\ l \in Singles => IsTold(b, h)

\* What a deploy job knows at each place.
Knows(l, b, h, j) ==
    j.step = "deploy" =>
        /\ j.pc \in Early \cup {"child"} => j.code = 0 /\ ~ j.failed
        /\ j.pc \notin Early \cup {"child"} => h.executor # "running"
        /\ j.pc \in Early \cup {"child"} \cup Writing => h.record = None
        /\ j.pc \notin {"chronology file", "chronology name", "annotate"} => h.chronology = None
        /\ j.pc \in {"post", "record"} \cup Telling => l \in Singles
        /\ l \in Rollouts /\ j.pc \in {"receipt", "name"} => j.value.kind = "plan"
        /\ j.pc \in {"record", "persist"} /\ j.value.kind = "plan" => h.report # None
        /\ j.pc = "persist" => l \in Singles
        /\ j.code = 0 /\ j.pc \in Writing /\ h.report # None => Deserved(l, h.report)
        /\ l \in Singles /\ j.pc \in {"record", "persist", "receipt", "name"} \cup Telling /\ ~ j.failed
              /\ j.value.kind = "plan" => j.post = "SUCCEEDED"
        /\ j.pc \in {"receipt", "name"} \cup Telling =>
              /\ h.record # None
              /\ h.record.outcome = "COMPLIANT" <=> j.value.kind = "compliance"
              /\ j.code = 0 => Deserved(l, h.record)
        /\ j.pc \in {"name"} \cup Telling => b.artifact["durable"] = h.record
        /\ j.pc \in Telling => b.meta["durable"] = h.record
        /\ j.pc \in {"chronology file", "chronology name"} => h.chronology = j.post
        /\ j.pc = "chronology name" => b.artifact["chronology"] = j.post
        /\ j.pc = "annotate" /\ j.code = 0 /\ ~ j.failed => Complete(l, b, h)

\* What a passed step stands for, and an evidence step that may pass.
Passed(l, b, h, j) ==
    /\ "deploy" \in b.passed => j.step # "deploy" /\ ((l \in Rollouts /\ h.times = 0) \/ Complete(l, b, h))
    /\ j.step = "evidence" \/ "evidence" \in b.passed => j.step # "deploy" /\ "deploy" \in h.directories
    /\ j.step = "evidence" /\ j.pc = "receipts" =>
          j.value \in Records /\ (j.value.outcome = "COMPLIANT" \/ j.value = b.artifact["record"])
    /\ "evidence" \in b.passed =>
          /\ h.record # None
          /\ h.record.outcome # "COMPLIANT" => b.artifact["record"] = h.record /\ h.chronology = "SUCCEEDED"

LaneInv(l, b, h, j) ==
    /\ ChannelsTyped(b) /\ Placed(j)
    /\ Attempted(b, h, j) /\ Planned(b, h, j) /\ Recorded(b, h, j)
    /\ Knows(l, b, h, j) /\ Passed(l, b, h, j)

\* From its reservation to the end of its executor a job holds the lock.
Holding == {"prepare", "spawn", "child"}

\* The lock and the place in the group belong to a job.
Owned ==
    /\ \A l \in Lanes : job[l].pc \in Holding => lock = l
    /\ \A l \in Lanes : lock = l => job[l].step = "deploy"
    /\ \A l \in Lanes : slot = l => job[l].step \in Protected

\* All that is known of one lane.
Sound(l, b, h, j) == l \in Lanes /\ b \in Builds /\ h \in Hosts /\ j \in JobStates /\ LaneInv(l, b, h, j)

IInv == Typed /\ Owned /\ \A l \in Lanes : Sound(l, build[l], host[l], job[l])

\* None is nothing else, and a lane is of one kind.
LEMMA Distinct ==
    /\ None \notin Lanes /\ None \notin Steps /\ None \notin Results /\ None \notin Records /\ None \notin Overall
    /\ Singles \cap Rollouts = {}
BY DeliveryAssumption

-----------------------------------------------------------------------------
(* What a step does to its lane. *)

\* What a step makes of a build,
Left(b, s, code) == [b EXCEPT !.ended = @ \cup {s}, !.passed = IF code = 0 THEN @ \cup {s} ELSE @]
Warned(b, said) == [b EXCEPT !.noWrite = @ \/ said]
Unblocked(b) == [b EXCEPT !.unblocked = TRUE, !.approved = b.shown]
GivenUp(b, s) == [b EXCEPT !.ended = @ \cup {s}]
Showing(b, v) == [b EXCEPT !.shown = v]
Uploaded(b, c, v) == [b EXCEPT !.artifact[c] = v]
NamedIn(b, c, v) == [b EXCEPT !.meta[c] = v]
\* of a host,
Attempting(h, s) == [h EXCEPT !.directories = @ \cup ({s} \cap Protected)]
Stopped(h) == [h EXCEPT !.executor = "ended"]
Doing(h, what) == [h EXCEPT !.executor = "running", !.report = None, !.times = @ + 1, !.executed = what]
Reporting(h, report) == [h EXCEPT !.executor = "ended", !.report = report]
Recording(h, record) == [h EXCEPT !.record = record]
Chronicling(h, post) == [h EXCEPT !.chronology = post]
\* and of a job.
Begun(j, s) == [j EXCEPT !.step = s, !.pc = "begun"]
Going(j, pc) == [j EXCEPT !.pc = pc]
Taking(j, v, pc) == [j EXCEPT !.value = v, !.pc = pc]
Coded(j, pc, code) == [j EXCEPT !.pc = pc, !.code = code]
Failing(j, pc) == [j EXCEPT !.pc = pc, !.failed = TRUE]
Posted(j, post, none) ==
    [j EXCEPT !.post = post, !.failed = post # "SUCCEEDED" \/ none, !.pc = IF none THEN "annotate" ELSE "record"]

\* A step begins where no attempt of it was made.
LEMMA BeginKeeps ==
  ASSUME NEW l, NEW b, NEW h, NEW j, Sound(l, b, h, j),
         NEW s \in Steps, j.pc = "idle", s \in Protected => s \notin h.directories,
         s = "evidence" => "deploy" \in b.ended
  PROVE  Sound(l, b, Attempting(h, s), Begun(j, s))
<1> DEFINE h2 == Attempting(h, s)
           j2 == Begun(j, s)
<1>0. j = Idle
  BY DEF Sound, LaneInv, Placed
<1>1. /\ h2.directories = h.directories \cup ({s} \cap Protected)
      /\ h2.executor = h.executor /\ h2.times = h.times /\ h2.executed = h.executed /\ h2.report = h.report
      /\ h2.record = h.record /\ h2.chronology = h.chronology
      /\ h2 \in Hosts
  BY DEF Sound, Hosts, Attempting
<1>2. j2.step = s /\ j2.pc = "begun" /\ j2.code = 0 /\ ~j2.failed /\ j2 \in JobStates
  BY <1>0 DEF Sound, Idle, JobStates, AllPlaces, Early, Begun
<1> HIDE DEF h2, j2
<1>3. ChannelsTyped(b) /\ Placed(j2)
  BY <1>2 DEF Sound, LaneInv, Placed, Places, Early, Steps
<1>4. Attempted(b, h2, j2)
  BY <1>0, <1>1, <1>2, Distinct DEF Sound, LaneInv, Attempted, Protected, Idle, Steps
<1>5. Planned(b, h2, j2)
  BY <1>1, <1>2 DEF Sound, LaneInv, Planned, Telling, Protected
<1>6. Recorded(b, h2, j2)
  BY <1>1, <1>2 DEF Sound, LaneInv, Recorded
<1>7. Knows(l, b, h2, j2)
  BY <1>1, <1>2, Distinct DEF Sound, LaneInv, Knows, Attempted, Early, Writing, Telling, Protected
<1>8. Passed(l, b, h2, j2)
  BY <1>0, <1>1, <1>2, Distinct DEF Sound, LaneInv, Passed, Attempted, Protected, Complete, IsTold, Steps
<1> QED
  BY <1>1, <1>2, <1>3, <1>4, <1>5, <1>6, <1>7, <1>8 DEF Sound, LaneInv, h2, j2

\* An executor that ends without a report.
LEMMA StopKeeps ==
  ASSUME NEW l, NEW b, NEW h, NEW j, Sound(l, b, h, j)
  PROVE  Sound(l, b, Stopped(h), j)
<1> DEFINE h2 == Stopped(h)
<1>1. /\ h2 \in Hosts /\ h2.directories = h.directories /\ h2.executor = "ended" /\ h2.times = h.times
      /\ h2.executed = h.executed /\ h2.report = h.report /\ h2.record = h.record /\ h2.chronology = h.chronology
  BY DEF Sound, Hosts, Stopped
<1> HIDE DEF h2
<1>2. Attempted(b, h2, j) /\ Planned(b, h2, j) /\ Recorded(b, h2, j)
  BY <1>1 DEF Sound, LaneInv, Attempted, Planned, Recorded
<1>3. Knows(l, b, h2, j)
  BY <1>1 DEF Sound, LaneInv, Knows, Complete, IsTold
<1>4. Passed(l, b, h2, j)
  BY <1>1 DEF Sound, LaneInv, Passed, Complete, IsTold
<1> QED
  BY <1>1, <1>2, <1>3, <1>4 DEF Sound, LaneInv, h2

\* A job ends; a code of zero has to be deserved.
LEMMA ExitKeeps ==
  ASSUME NEW l, NEW b, NEW h, NEW j, Sound(l, b, h, j), NEW code \in {0, 2, 3},
         j.pc # "idle",
         code = 0 /\ j.step = "deploy" => (l \in Rollouts /\ h.times = 0) \/ Complete(l, b, h),
         code = 0 /\ j.step = "evidence" =>
            /\ h.record # None
            /\ h.record.outcome # "COMPLIANT" => b.artifact["record"] = h.record /\ h.chronology = "SUCCEEDED"
  PROVE  Sound(l, Left(b, j.step, code), h, Idle)
<1> DEFINE b2 == Left(b, j.step, code)
<1>0. j.step \in Steps
  BY DEF Sound, LaneInv, Placed
<1>1. /\ b2 \in Builds /\ b2.artifact = b.artifact /\ b2.meta = b.meta /\ b2.shown = b.shown
      /\ b2.approved = b.approved /\ b2.noWrite = b.noWrite
      /\ b2.ended = b.ended \cup {j.step}
      /\ b2.passed = IF code = 0 THEN b.passed \cup {j.step} ELSE b.passed
  BY <1>0 DEF Sound, Builds, Left
<1>2. Idle \in JobStates /\ Idle.step = None /\ Idle.pc = "idle"
  BY DEF Idle, JobStates, AllPlaces, Documents, Ends
<1> HIDE DEF b2
<1>3. ChannelsTyped(b2) /\ Placed(Idle)
  BY <1>1, <1>2 DEF Sound, LaneInv, ChannelsTyped, Placed
<1>4. Attempted(b2, h, Idle)
  BY <1>0, <1>1, <1>2, Distinct DEF Sound, LaneInv, Attempted, Protected, Steps
<1>5. Planned(b2, h, Idle)
  BY <1>1, <1>2, Distinct DEF Sound, LaneInv, Planned, Published, Steps
<1>6. Recorded(b2, h, Idle)
  BY <1>1 DEF Sound, LaneInv, Recorded
<1>7. Knows(l, b2, h, Idle)
  BY <1>2, Distinct DEF Knows, Steps
<1>8. Passed(l, b2, h, Idle)
  <2>1. None # "deploy" /\ None # "evidence"
    BY Distinct DEF Steps
  <2>2. Complete(l, b, h) => Complete(l, b2, h)
    BY <1>1 DEF Complete, IsTold, IsEstablished
  <2>3. "deploy" \in b2.passed => (l \in Rollouts /\ h.times = 0) \/ Complete(l, b2, h)
    BY <1>1, <2>2 DEF Sound, LaneInv, Passed
  <2>4. "evidence" \in b2.passed => "deploy" \in h.directories
    BY <1>0, <1>1 DEF Sound, LaneInv, Passed, Attempted
  <2> QED
    BY <1>1, <1>2, <2>1, <2>3, <2>4 DEF Sound, LaneInv, Passed
<1> QED
  BY <1>1, <1>2, <1>3, <1>4, <1>5, <1>6, <1>7, <1>8 DEF Sound, LaneInv, b2

\* "NO WRITE" is said in one place, where nothing was executed and nothing will be.
LEMMA RefuseKeeps ==
  ASSUME NEW l, NEW b, NEW h, NEW j, Sound(l, b, h, j), NEW code \in {2, 3}, NEW said \in BOOLEAN,
         j.step = "deploy", j.pc \in Early
  PROVE  Sound(l, Left(Warned(b, said), j.step, code), h, Idle)
<1> DEFINE b2 == Left(b, j.step, code)
           b3 == Left(Warned(b, said), j.step, code)
<1>1. Sound(l, b2, h, Idle)
  BY ExitKeeps DEF Early
<1>2. /\ b3 \in Builds /\ b3.artifact = b2.artifact /\ b3.meta = b2.meta /\ b3.shown = b2.shown
      /\ b3.approved = b2.approved /\ b3.ended = b2.ended /\ b3.passed = b2.passed
  BY DEF Sound, Builds, Steps, Left, Warned
<1>3. h.times = 0 /\ "deploy" \in h.directories /\ Idle.step \notin Steps
  BY Distinct DEF Sound, LaneInv, Attempted, Protected, Idle, Steps
<1> HIDE DEF b2, b3
<1>4. Complete(l, b2, h) => Complete(l, b3, h)
  BY <1>2 DEF Complete, IsTold, IsEstablished
<1>5. ChannelsTyped(b3) /\ Attempted(b3, h, Idle)
  BY <1>1, <1>2, <1>3 DEF Sound, LaneInv, ChannelsTyped, Attempted, Steps
<1>6. Planned(b3, h, Idle) /\ Recorded(b3, h, Idle) /\ Knows(l, b3, h, Idle)
  BY <1>1, <1>2, <1>3 DEF Sound, LaneInv, Planned, Published, Recorded, Knows, Steps
<1>7. Passed(l, b3, h, Idle)
  BY <1>1, <1>2, <1>3, <1>4 DEF Sound, LaneInv, Passed
<1> QED
  BY <1>1, <1>2, <1>5, <1>6, <1>7 DEF Sound, LaneInv, b3

\* An upload changes one artifact.
LEMMA UploadedFields ==
  ASSUME NEW b \in Builds, NEW c \in Channels, NEW v \in Documents
  PROVE  /\ Uploaded(b, c, v) \in Builds
         /\ Uploaded(b, c, v).artifact = [b.artifact EXCEPT ![c] = v]
         /\ Uploaded(b, c, v).meta = b.meta /\ Uploaded(b, c, v).shown = b.shown
         /\ Uploaded(b, c, v).approved = b.approved /\ Uploaded(b, c, v).noWrite = b.noWrite
         /\ Uploaded(b, c, v).ended = b.ended /\ Uploaded(b, c, v).passed = b.passed
         /\ b.artifact \in [Channels -> Documents]
BY DEF Builds, Uploaded

\* A published digest changes one key of the metadata.
LEMMA NamedInFields ==
  ASSUME NEW b \in Builds, NEW c \in Channels, NEW v \in Documents
  PROVE  /\ NamedIn(b, c, v) \in Builds
         /\ NamedIn(b, c, v).meta = [b.meta EXCEPT ![c] = v]
         /\ NamedIn(b, c, v).artifact = b.artifact /\ NamedIn(b, c, v).shown = b.shown
         /\ NamedIn(b, c, v).approved = b.approved /\ NamedIn(b, c, v).noWrite = b.noWrite
         /\ NamedIn(b, c, v).ended = b.ended /\ NamedIn(b, c, v).passed = b.passed
         /\ b.meta \in [Channels -> Documents]
BY DEF Builds, NamedIn

\* A job goes on.
LEMMA GoingFields ==
  ASSUME NEW j \in JobStates, NEW pc \in AllPlaces
  PROVE  /\ Going(j, pc) \in JobStates /\ Going(j, pc).step = j.step /\ Going(j, pc).pc = pc
         /\ Going(j, pc).value = j.value /\ Going(j, pc).code = j.code
         /\ Going(j, pc).post = j.post /\ Going(j, pc).failed = j.failed
BY DEF JobStates, Going

\* A job takes a document and goes on.
LEMMA TakingFields ==
  ASSUME NEW j \in JobStates, NEW pc \in AllPlaces, NEW v \in Documents
  PROVE  /\ Taking(j, v, pc) \in JobStates /\ Taking(j, v, pc).step = j.step /\ Taking(j, v, pc).pc = pc
         /\ Taking(j, v, pc).value = v /\ Taking(j, v, pc).code = j.code
         /\ Taking(j, v, pc).post = j.post /\ Taking(j, v, pc).failed = j.failed
BY DEF JobStates, Taking

\* What a person has before them when they unblock.
LEMMA UnblockKeeps ==
  ASSUME NEW l, NEW b, NEW h, NEW j, Sound(l, b, h, j)
  PROVE  Sound(l, Unblocked(b), h, j)
<1> DEFINE b2 == Unblocked(b)
<1>0. b \in Builds /\ h \in Hosts /\ j \in JobStates /\ j.value \in Documents
  BY DEF Sound, JobStates
<1>1. /\ b2 \in Builds /\ b2.artifact = b.artifact /\ b2.meta = b.meta /\ b2.shown = b.shown
      /\ b2.approved = b.shown /\ b2.ended = b.ended /\ b2.passed = b.passed /\ b2.noWrite = b.noWrite
  BY <1>0 DEF Builds, Unblocked
<1> HIDE DEF b2
<1>2. ChannelsTyped(b2)
  BY <1>1 DEF Sound, LaneInv, ChannelsTyped
<1>3. Attempted(b2, h, j)
  BY <1>1 DEF Sound, LaneInv, Attempted, Early, Protected, Steps
<1>4. Planned(b2, h, j)
  BY <1>1 DEF Sound, LaneInv, Planned, Published, Telling, Early, Steps
<1>5. Recorded(b2, h, j)
  BY <1>1 DEF Sound, LaneInv, Recorded
<1>6. Knows(l, b2, h, j)
  BY <1>1 DEF Sound, LaneInv, Knows, Early, Writing, Telling, Complete, IsEstablished, IsTold
<1>7. Passed(l, b2, h, j)
  BY <1>1 DEF Sound, LaneInv, Passed, Complete, IsEstablished, IsTold
<1> QED
  BY <1>1, <1>2, <1>3, <1>4, <1>5, <1>6, <1>7 DEF Sound, LaneInv, b2

\* A job that is given up has ended for Buildkite only.
LEMMA LostKeeps ==
  ASSUME NEW l, NEW b, NEW h, NEW j, Sound(l, b, h, j),
         j.pc # "idle"
  PROVE  Sound(l, GivenUp(b, j.step), h, j)
<1> DEFINE b2 == GivenUp(b, j.step)
<1>0. b \in Builds /\ h \in Hosts /\ j \in JobStates /\ j.value \in Documents
  BY DEF Sound, JobStates
<1>1. /\ b2 \in Builds /\ b2.artifact = b.artifact /\ b2.meta = b.meta /\ b2.shown = b.shown
      /\ b2.approved = b.approved /\ b2.ended = b.ended \cup {j.step} /\ b2.passed = b.passed
      /\ b2.noWrite = b.noWrite
  BY <1>0 DEF Sound, LaneInv, Placed, Builds, GivenUp
<1> HIDE DEF b2
<1>2. ChannelsTyped(b2)
  BY <1>1 DEF Sound, LaneInv, ChannelsTyped
<1>3. Attempted(b2, h, j)
  BY <1>1 DEF Sound, LaneInv, Attempted, Early, Protected, Steps
<1>4. Planned(b2, h, j)
  BY <1>1 DEF Sound, LaneInv, Planned, Published, Telling, Early, Steps
<1>5. Recorded(b2, h, j)
  BY <1>1 DEF Sound, LaneInv, Recorded
<1>6. Knows(l, b2, h, j)
  BY <1>1 DEF Sound, LaneInv, Knows, Early, Writing, Telling, Complete, IsEstablished, IsTold
<1>7. Passed(l, b2, h, j)
  BY <1>1 DEF Sound, LaneInv, Passed, Complete, IsEstablished, IsTold
<1> QED
  BY <1>1, <1>2, <1>3, <1>4, <1>5, <1>6, <1>7 DEF Sound, LaneInv, b2

\* A plan job has read the device.
LEMMA ObserveKeeps ==
  ASSUME NEW l, NEW b, NEW h, NEW j, Sound(l, b, h, j),
         NEW r \in Results,
         j.step = "plan",
         j.pc = "begun"
  PROVE  Sound(l, b, h, Taking(j, r, "upload"))
<1> DEFINE j2 == Taking(j, r, "upload")
<1>0. b \in Builds /\ h \in Hosts /\ j \in JobStates /\ j.value \in Documents
  BY DEF Sound, JobStates
<1>1. /\ j2 \in JobStates /\ j2.step = j.step /\ j2.pc = "upload" /\ j2.value = r /\ j2.code = j.code
      /\ j2.post = j.post /\ j2.failed = j.failed
  BY <1>0, TakingFields DEF Documents, AllPlaces
<1> HIDE DEF j2
<1>2. Placed(j2)
  BY <1>1 DEF Sound, LaneInv, Placed, Places, Early, Writing, Telling, Steps
<1>3. Attempted(b, h, j2)
  BY <1>1 DEF Sound, LaneInv, Attempted, Early, Protected, Steps
<1>4. Planned(b, h, j2)
  BY <1>1 DEF Sound, LaneInv, Planned, Published, Telling, Early, Steps
<1>5. Recorded(b, h, j2)
  BY <1>1 DEF Sound, LaneInv, Recorded
<1>6. Knows(l, b, h, j2)
  BY <1>1 DEF Sound, LaneInv, Knows, Early, Writing, Telling
<1>7. Passed(l, b, h, j2)
  BY <1>1 DEF Sound, LaneInv, Passed
<1> QED
  BY <1>1, <1>2, <1>3, <1>4, <1>5, <1>6, <1>7 DEF Sound, LaneInv, j2

\* The plan goes up before its digest is published.
LEMMA UploadPlanKeeps ==
  ASSUME NEW l, NEW b, NEW h, NEW j, Sound(l, b, h, j),
         j.step = "plan",
         j.pc = "upload"
  PROVE  Sound(l, Uploaded(b, "planning", j.value), h, Going(j, "metadata"))
<1> DEFINE b2 == Uploaded(b, "planning", j.value)
           j2 == Going(j, "metadata")
<1>0. b \in Builds /\ h \in Hosts /\ j \in JobStates /\ j.value \in Documents
  BY DEF Sound, JobStates
<1>1. "planning" \in Channels
  BY DEF Channels
<1>2. /\ b2 \in Builds /\ b2.meta = b.meta /\ b2.shown = b.shown /\ b2.approved = b.approved
      /\ b2.ended = b.ended /\ b2.passed = b.passed /\ b2.noWrite = b.noWrite
      /\ b2.artifact = [b.artifact EXCEPT !["planning"] = j.value] /\ b.artifact \in [Channels -> Documents]
  BY <1>0, <1>1, UploadedFields
<1>3. /\ j2 \in JobStates /\ j2.step = j.step /\ j2.pc = "metadata" /\ j2.value = j.value /\ j2.code = j.code
      /\ j2.post = j.post /\ j2.failed = j.failed
  BY <1>0, GoingFields DEF AllPlaces
<1> HIDE DEF b2, j2
<1>4. /\ b2.artifact["planning"] = j.value /\ b2.artifact["record"] = b.artifact["record"]
      /\ b2.artifact["durable"] = b.artifact["durable"] /\ b2.artifact["chronology"] = b.artifact["chronology"]
  BY <1>2, <1>3 DEF Channels
<1>5. ChannelsTyped(b2)
  BY <1>2, <1>3, <1>4 DEF Sound, LaneInv, ChannelsTyped, Channels, Planned, Plans
<1>6. Placed(j2)
  BY <1>2, <1>3, <1>4 DEF Sound, LaneInv, Placed, Places, Early, Writing, Telling, Steps
<1>7. Attempted(b2, h, j2)
  BY <1>2, <1>3, <1>4 DEF Sound, LaneInv, Attempted, Early, Protected, Steps
<1>8. Planned(b2, h, j2)
  BY <1>2, <1>3, <1>4 DEF Sound, LaneInv, Planned, Published, Telling, Early, Steps
<1>9. Recorded(b2, h, j2)
  BY <1>2, <1>3, <1>4 DEF Sound, LaneInv, Recorded
<1>10. Knows(l, b2, h, j2)
  BY <1>2, <1>3, <1>4 DEF Sound, LaneInv, Knows, Early, Writing, Telling, Complete, IsEstablished, IsTold
<1>11. Passed(l, b2, h, j2)
  BY <1>2, <1>3, <1>4 DEF Sound, LaneInv, Passed, Complete, IsEstablished, IsTold
<1> QED
  BY <1>2, <1>3, <1>4, <1>5, <1>6, <1>7, <1>8, <1>9, <1>10, <1>11 DEF Sound, LaneInv, b2, j2

\* The digest of the plan is published: this is the plan of the build from now on.
LEMMA PublishPlanKeeps ==
  ASSUME NEW l, NEW b, NEW h, NEW j, Sound(l, b, h, j),
         j.step = "plan",
         j.pc = "metadata"
  PROVE  Sound(l, Left(NamedIn(b, "planning", j.value), j.step, 0), h, Idle)
<1> DEFINE b2 == Left(NamedIn(b, "planning", j.value), j.step, 0)
           j2 == Idle
<1>0. b \in Builds /\ h \in Hosts /\ j \in JobStates /\ j.value \in Documents
  BY DEF Sound, JobStates
<1>1. /\ b2 \in Builds /\ b2.artifact = b.artifact /\ b2.shown = b.shown /\ b2.approved = b.approved
      /\ b2.ended = b.ended \cup {j.step} /\ b2.passed = b.passed \cup {j.step} /\ b2.noWrite = b.noWrite
      /\ b2.meta = [b.meta EXCEPT !["planning"] = j.value] /\ b.meta \in [Channels -> Documents]
  BY <1>0 DEF Builds, Left, NamedIn, Steps
<1>2. /\ j2 \in JobStates /\ j2.step = None /\ j2.pc = "idle" /\ None \notin Steps
  BY <1>0, Distinct DEF Idle, JobStates, AllPlaces, Documents, Ends
<1> HIDE DEF b2, j2
<1>3. ChannelsTyped(b2)
  BY <1>1, <1>2 DEF Sound, LaneInv, ChannelsTyped, Channels, Planned, Plans
<1>4. Placed(j2)
  BY <1>1, <1>2 DEF Sound, LaneInv, Placed, Places, Early, Writing, Telling, Steps, j2, Idle
<1>5. Attempted(b2, h, j2)
  BY <1>1, <1>2 DEF Sound, LaneInv, Attempted, Early, Protected, Steps, Channels
<1>6. Planned(b2, h, j2)
  BY <1>1, <1>2 DEF Sound, LaneInv, Planned, Published, Telling, Early, Steps, Channels, Attempted, Protected
<1>7. Recorded(b2, h, j2)
  BY <1>1, <1>2 DEF Sound, LaneInv, Recorded, Channels
<1>8. Knows(l, b2, h, j2)
  BY <1>1, <1>2 DEF Sound, LaneInv, Knows, Early, Writing, Telling, Channels, Complete, IsEstablished, IsTold, Steps
<1>9. Passed(l, b2, h, j2)
  BY <1>1, <1>2 DEF Sound, LaneInv, Passed, Channels, Complete, IsEstablished, IsTold, Steps
<1> QED
  BY <1>1, <1>2, <1>3, <1>4, <1>5, <1>6, <1>7, <1>8, <1>9 DEF Sound, LaneInv, b2, j2

\* The channels of the promotion bind nothing of what follows here.
LEMMA PromotionChannels ==
  ASSUME NEW l, NEW b, NEW h, NEW j, Sound(l, b, h, j), NEW c \in Channels, c \in {"promotion", "promotion bytes"},
         NEW v \in Documents, v \in Plans
  PROVE  Sound(l, Uploaded(b, c, v), h, j) /\ Sound(l, NamedIn(b, c, v), h, j)
<1>1. Sound(l, Uploaded(b, c, v), h, j)
  <2> DEFINE b2 == Uploaded(b, c, v)
  <2>0. b \in Builds /\ h \in Hosts /\ j \in JobStates /\ j.value \in Documents
    BY DEF Sound, JobStates
  <2>1. /\ b2 \in Builds /\ b2.meta = b.meta /\ b2.shown = b.shown /\ b2.approved = b.approved
        /\ b2.ended = b.ended /\ b2.passed = b.passed /\ b2.noWrite = b.noWrite
        /\ b2.artifact = [b.artifact EXCEPT ![c] = v] /\ b.artifact \in [Channels -> Documents] /\ c \in Channels
    BY ONLY c \in Channels, v \in Documents, <2>0, UploadedFields
  <2> HIDE DEF b2
  <2>2. ChannelsTyped(b2)
    BY <2>1 DEF Sound, LaneInv, ChannelsTyped, Channels
  <2>3. Attempted(b2, h, j)
    BY <2>1 DEF Sound, LaneInv, Attempted, Early, Protected, Steps, Channels
  <2>4. Planned(b2, h, j)
    BY <2>1 DEF Sound, LaneInv, Planned, Published, Telling, Early, Steps, Channels
  <2>5. Recorded(b2, h, j)
    BY <2>1 DEF Sound, LaneInv, Recorded, Channels
  <2>6. Knows(l, b2, h, j)
    BY <2>1 DEF Sound, LaneInv, Knows, Early, Writing, Telling, Channels, Complete, IsEstablished, IsTold
  <2>7. Passed(l, b2, h, j)
    BY <2>1 DEF Sound, LaneInv, Passed, Channels, Complete, IsEstablished, IsTold
  <2> QED
    BY <2>1, <2>2, <2>3, <2>4, <2>5, <2>6, <2>7 DEF Sound, LaneInv, b2
<1>2. Sound(l, NamedIn(b, c, v), h, j)
  <2> DEFINE b2 == NamedIn(b, c, v)
  <2>0. b \in Builds /\ h \in Hosts /\ j \in JobStates /\ j.value \in Documents
    BY DEF Sound, JobStates
  <2>1. /\ b2 \in Builds /\ b2.artifact = b.artifact /\ b2.shown = b.shown /\ b2.approved = b.approved
        /\ b2.ended = b.ended /\ b2.passed = b.passed /\ b2.noWrite = b.noWrite
        /\ b2.meta = [b.meta EXCEPT ![c] = v] /\ b.meta \in [Channels -> Documents] /\ c \in Channels
    BY ONLY c \in Channels, v \in Documents, <2>0, NamedInFields
  <2> HIDE DEF b2
  <2>2. ChannelsTyped(b2)
    BY <2>1 DEF Sound, LaneInv, ChannelsTyped, Channels
  <2>3. Attempted(b2, h, j)
    BY <2>1 DEF Sound, LaneInv, Attempted, Early, Protected, Steps, Channels
  <2>4. Planned(b2, h, j)
    BY <2>1 DEF Sound, LaneInv, Planned, Published, Telling, Early, Steps, Channels
  <2>5. Recorded(b2, h, j)
    BY <2>1 DEF Sound, LaneInv, Recorded, Channels
  <2>6. Knows(l, b2, h, j)
    BY <2>1 DEF Sound, LaneInv, Knows, Early, Writing, Telling, Channels, Complete, IsEstablished, IsTold
  <2>7. Passed(l, b2, h, j)
    BY <2>1 DEF Sound, LaneInv, Passed, Channels, Complete, IsEstablished, IsTold
  <2> QED
    BY <2>1, <2>2, <2>3, <2>4, <2>5, <2>6, <2>7 DEF Sound, LaneInv, b2
<1> QED
  BY <1>1, <1>2

\* A promotion is minted for the published plan.
LEMMA MintKeeps ==
  ASSUME NEW l, NEW b, NEW h, NEW j, Sound(l, b, h, j),
         j.step = "promotion",
         j.pc = "begun",
         Published(b) # None
  PROVE  Sound(l, b, h, Taking(j, Published(b), "upload"))
<1> DEFINE j2 == Taking(j, Published(b), "upload")
<1>0. b \in Builds /\ h \in Hosts /\ j \in JobStates /\ j.value \in Documents
  BY DEF Sound, JobStates
<1>1. Published(b) \in Plans /\ Published(b) \in Documents
  BY <1>0 DEF Sound, LaneInv, ChannelsTyped, Published, Plans, Documents
<1>2. /\ j2 \in JobStates /\ j2.step = j.step /\ j2.pc = "upload" /\ j2.value = Published(b) /\ j2.code = j.code
      /\ j2.post = j.post /\ j2.failed = j.failed
  BY <1>0, <1>1, TakingFields DEF AllPlaces
<1> HIDE DEF j2
<1>3. Placed(j2)
  BY <1>2 DEF Sound, LaneInv, Placed, Places, Early, Writing, Telling, Steps
<1>4. Attempted(b, h, j2)
  BY <1>2 DEF Sound, LaneInv, Attempted, Early, Protected, Steps
<1>5. Planned(b, h, j2)
  BY <1>2 DEF Sound, LaneInv, Planned, Published, Telling, Early, Steps
<1>6. Recorded(b, h, j2)
  BY <1>2 DEF Sound, LaneInv, Recorded
<1>7. Knows(l, b, h, j2)
  BY <1>2 DEF Sound, LaneInv, Knows, Early, Writing, Telling
<1>8. Passed(l, b, h, j2)
  BY <1>2 DEF Sound, LaneInv, Passed
<1> QED
  BY <1>2, <1>3, <1>4, <1>5, <1>6, <1>7, <1>8 DEF Sound, LaneInv, j2

\* A promotion job goes on.
LEMMA PromotionMoves ==
  ASSUME NEW l, NEW b, NEW h, NEW j, Sound(l, b, h, j),
         j.step = "promotion",
         j.pc # "begun",
         NEW pc \in {"annotate", "bytes", "metadata"}
  PROVE  Sound(l, b, h, Going(j, pc))
<1> DEFINE j2 == Going(j, pc)
<1>0. b \in Builds /\ h \in Hosts /\ j \in JobStates /\ j.value \in Documents
  BY DEF Sound, JobStates
<1>1. /\ j2 \in JobStates /\ j2.step = j.step /\ j2.pc = pc /\ j2.value = j.value /\ j2.code = j.code
      /\ j2.post = j.post /\ j2.failed = j.failed
  BY <1>0, GoingFields DEF AllPlaces
<1> HIDE DEF j2
<1>2. Placed(j2)
  BY <1>1 DEF Sound, LaneInv, Placed, Places, Early, Writing, Telling, Steps
<1>3. Attempted(b, h, j2)
  BY <1>1 DEF Sound, LaneInv, Attempted, Early, Protected, Steps
<1>4. Planned(b, h, j2)
  BY <1>1 DEF Sound, LaneInv, Planned, Published, Telling, Early, Steps
<1>5. Recorded(b, h, j2)
  BY <1>1 DEF Sound, LaneInv, Recorded
<1>6. Knows(l, b, h, j2)
  BY <1>1 DEF Sound, LaneInv, Knows, Early, Writing, Telling
<1>7. Passed(l, b, h, j2)
  BY <1>1 DEF Sound, LaneInv, Passed
<1> QED
  BY <1>1, <1>2, <1>3, <1>4, <1>5, <1>6, <1>7 DEF Sound, LaneInv, j2

\* What is shown is the published plan.
LEMMA AnnotateKeeps ==
  ASSUME NEW l, NEW b, NEW h, NEW j, Sound(l, b, h, j),
         j.step = "promotion",
         j.pc = "annotate",
         NEW pc \in {"bytes", "metadata"}
  PROVE  Sound(l, Showing(b, j.value), h, Going(j, pc))
<1> DEFINE b2 == Showing(b, j.value)
           j2 == Going(j, pc)
<1>0. b \in Builds /\ h \in Hosts /\ j \in JobStates /\ j.value \in Documents
  BY DEF Sound, JobStates
<1>1. /\ b2 \in Builds /\ b2.artifact = b.artifact /\ b2.meta = b.meta /\ b2.shown = j.value
      /\ b2.approved = b.approved /\ b2.ended = b.ended /\ b2.passed = b.passed /\ b2.noWrite = b.noWrite
  BY <1>0 DEF Sound, LaneInv, Planned, ChannelsTyped, Published, Plans, Builds, Showing
<1>2. /\ j2 \in JobStates /\ j2.step = j.step /\ j2.pc = pc /\ j2.value = j.value /\ j2.code = j.code
      /\ j2.post = j.post /\ j2.failed = j.failed
  BY <1>0, GoingFields DEF AllPlaces
<1> HIDE DEF b2, j2
<1>3. ChannelsTyped(b2)
  BY <1>1, <1>2 DEF Sound, LaneInv, ChannelsTyped
<1>4. Placed(j2)
  BY <1>1, <1>2 DEF Sound, LaneInv, Placed, Places, Early, Writing, Telling, Steps
<1>5. Attempted(b2, h, j2)
  BY <1>1, <1>2 DEF Sound, LaneInv, Attempted, Early, Protected, Steps
<1>6. Planned(b2, h, j2)
  BY <1>1, <1>2 DEF Sound, LaneInv, Planned, Published, Telling, Early, Steps
<1>7. Recorded(b2, h, j2)
  BY <1>1, <1>2 DEF Sound, LaneInv, Recorded
<1>8. Knows(l, b2, h, j2)
  BY <1>1, <1>2 DEF Sound, LaneInv, Knows, Early, Writing, Telling, Complete, IsEstablished, IsTold
<1>9. Passed(l, b2, h, j2)
  BY <1>1, <1>2 DEF Sound, LaneInv, Passed, Complete, IsEstablished, IsTold
<1> QED
  BY <1>1, <1>2, <1>3, <1>4, <1>5, <1>6, <1>7, <1>8, <1>9 DEF Sound, LaneInv, b2, j2

\* A deploy job has admitted the published plan, or a compliant result.
LEMMA AdmitKeeps ==
  ASSUME NEW l, NEW b, NEW h, NEW j, Sound(l, b, h, j),
         j.step = "deploy",
         j.pc = "begun",
         Published(b) # None,
         NEW pc,
         IF Published(b).kind = "plan" THEN pc = "reserve" ELSE pc = "persist" /\ l \in Singles
  PROVE  Sound(l, b, h, Taking(j, Published(b), pc))
<1> DEFINE j2 == Taking(j, Published(b), pc)
<1>0. b \in Builds /\ h \in Hosts /\ j \in JobStates /\ j.value \in Documents
  BY DEF Sound, JobStates
<1>1. Published(b) \in Plans /\ Published(b) \in Documents
  BY <1>0 DEF Sound, LaneInv, ChannelsTyped, Published, Plans, Documents
<1>2. pc \in {"reserve", "persist"} /\ pc \in AllPlaces
  BY <1>0, <1>1 DEF AllPlaces, Early, Writing
<1>3. /\ j2 \in JobStates /\ j2.step = j.step /\ j2.pc = pc /\ j2.value = Published(b) /\ j2.code = j.code
      /\ j2.post = j.post /\ j2.failed = j.failed
  BY <1>0, <1>1, <1>2, TakingFields
<1> HIDE DEF j2
<1>4. Placed(j2)
  BY <1>3 DEF Sound, LaneInv, Placed, Places, Early, Writing, Telling, Steps
<1>5. Attempted(b, h, j2)
  BY <1>3 DEF Sound, LaneInv, Attempted, Early, Protected, Steps
<1>6. Planned(b, h, j2)
  BY <1>3 DEF Sound, LaneInv, Planned, Published, Telling, Early, Steps
<1>7. Recorded(b, h, j2)
  BY <1>3 DEF Sound, LaneInv, Recorded
<1>8. Knows(l, b, h, j2)
  <2>1. h.times = 0 /\ h.executor # "running" /\ h.report = None /\ h.record = None /\ h.chronology = None
        /\ j.code = 0 /\ ~ j.failed
    BY DEF Sound, LaneInv, Attempted, Recorded, Knows, Early
  <2> QED
    BY <1>2, <1>3, <2>1 DEF Knows, Early, Writing, Telling
<1>9. Passed(l, b, h, j2)
  BY <1>3 DEF Sound, LaneInv, Passed
<1> QED
  BY <1>3, <1>4, <1>5, <1>6, <1>7, <1>8, <1>9 DEF Sound, LaneInv, j2

\* A deploy job comes nearer to its executor.
LEMMA PrepareKeeps ==
  ASSUME NEW l, NEW b, NEW h, NEW j, Sound(l, b, h, j),
         j.step = "deploy",
         j.pc \in {"reserve", "prepare"},
         NEW pc \in {"prepare", "spawn"}
  PROVE  Sound(l, b, h, Going(j, pc))
<1> DEFINE j2 == Going(j, pc)
<1>0. b \in Builds /\ h \in Hosts /\ j \in JobStates /\ j.value \in Documents
  BY DEF Sound, JobStates
<1>1. /\ j2 \in JobStates /\ j2.step = j.step /\ j2.pc = pc /\ j2.value = j.value /\ j2.code = j.code
      /\ j2.post = j.post /\ j2.failed = j.failed
  BY <1>0, GoingFields DEF AllPlaces, Early
<1> HIDE DEF j2
<1>2. Placed(j2)
  BY <1>1 DEF Sound, LaneInv, Placed, Places, Early, Writing, Telling, Steps
<1>3. Attempted(b, h, j2)
  BY <1>1 DEF Sound, LaneInv, Attempted, Early, Protected, Steps
<1>4. Planned(b, h, j2)
  BY <1>1 DEF Sound, LaneInv, Planned, Published, Telling, Early, Steps
<1>5. Recorded(b, h, j2)
  BY <1>1 DEF Sound, LaneInv, Recorded
<1>6. Knows(l, b, h, j2)
  BY <1>1 DEF Sound, LaneInv, Knows, Early, Writing, Telling
<1>7. Passed(l, b, h, j2)
  BY <1>1 DEF Sound, LaneInv, Passed
<1> QED
  BY <1>1, <1>2, <1>3, <1>4, <1>5, <1>6, <1>7 DEF Sound, LaneInv, j2

\* The executor of the reviewed plan starts, once.
LEMMA SpawnKeeps ==
  ASSUME NEW l, NEW b, NEW h, NEW j, Sound(l, b, h, j),
         j.step = "deploy",
         j.pc = "spawn"
  PROVE  Sound(l, b, Doing(h, j.value), Going(j, "child"))
<1> DEFINE h2 == Doing(h, j.value)
           j2 == Going(j, "child")
<1>0. b \in Builds /\ h \in Hosts /\ j \in JobStates /\ j.value \in Documents
  BY DEF Sound, JobStates
<1>1. h.times = 0 /\ h.times + 1 \in Nat /\ h.times + 1 = 1 /\ h.record = None
  BY <1>0 DEF Sound, LaneInv, Attempted, Knows, Early
<1>2. j.value \in Results /\ j.value # None /\ j.value = Published(b)
  BY <1>0, <1>1 DEF Sound, LaneInv, ChannelsTyped, Planned, Published, Plans
<1>3. /\ h2 \in Hosts /\ h2.directories = h.directories /\ h2.executor = "running" /\ h2.times = 1
      /\ h2.executed = j.value /\ h2.report = None /\ h2.record = h.record /\ h2.chronology = h.chronology
  BY <1>0, <1>1, <1>2 DEF Hosts, Doing, Plans
<1>4. /\ j2 \in JobStates /\ j2.step = j.step /\ j2.pc = "child" /\ j2.value = j.value /\ j2.code = j.code
      /\ j2.post = j.post /\ j2.failed = j.failed
  BY <1>0, <1>1, <1>2, GoingFields DEF AllPlaces
<1> HIDE DEF h2, j2
<1>5. Placed(j2)
  BY <1>3, <1>4 DEF Sound, LaneInv, Placed, Places, Early, Writing, Telling, Steps
<1>6. Attempted(b, h2, j2)
  BY <1>3, <1>4, <1>1 DEF Sound, LaneInv, Attempted, Early, Protected, Steps
<1>7. Planned(b, h2, j2)
  BY <1>3, <1>4, <1>2 DEF Sound, LaneInv, Planned, Published, Telling, Early, Steps
<1>8. Recorded(b, h2, j2)
  BY <1>3, <1>4, <1>1 DEF Sound, LaneInv, Recorded
<1>9. Knows(l, b, h2, j2)
  BY <1>3, <1>4, <1>1 DEF Sound, LaneInv, Knows, Early, Writing, Telling, Complete, IsEstablished, IsTold
<1>10. Passed(l, b, h2, j2)
  BY <1>3, <1>4 DEF Sound, LaneInv, Passed, Complete, IsEstablished, IsTold
<1> QED
  BY <1>3, <1>4, <1>5, <1>6, <1>7, <1>8, <1>9, <1>10 DEF Sound, LaneInv, h2, j2

\* The call of the executor raises before there is one.
LEMMA SpawnRaisesKeeps ==
  ASSUME NEW l, NEW b, NEW h, NEW j, Sound(l, b, h, j),
         j.step = "deploy",
         j.pc = "spawn",
         l \in Singles
  PROVE  Sound(l, b, h, Coded(j, "post", 3))
<1> DEFINE j2 == Coded(j, "post", 3)
<1>0. b \in Builds /\ h \in Hosts /\ j \in JobStates /\ j.value \in Documents
  BY DEF Sound, JobStates
<1>1. /\ j2 \in JobStates /\ j2.step = j.step /\ j2.pc = "post" /\ j2.value = j.value /\ j2.code = 3
      /\ j2.post = j.post /\ j2.failed = j.failed
  BY <1>0 DEF AllPlaces, Writing, JobStates, Coded
<1> HIDE DEF j2
<1>2. Placed(j2)
  BY <1>1 DEF Sound, LaneInv, Placed, Places, Early, Writing, Telling, Steps
<1>3. Attempted(b, h, j2)
  BY <1>1 DEF Sound, LaneInv, Attempted, Early, Protected, Steps
<1>4. Planned(b, h, j2)
  BY <1>1 DEF Sound, LaneInv, Planned, Published, Telling, Early, Steps
<1>5. Recorded(b, h, j2)
  BY <1>1 DEF Sound, LaneInv, Recorded
<1>6. Knows(l, b, h, j2)
  BY <1>1 DEF Sound, LaneInv, Knows, Early, Writing, Telling, Attempted
<1>7. Passed(l, b, h, j2)
  BY <1>1 DEF Sound, LaneInv, Passed
<1> QED
  BY <1>1, <1>2, <1>3, <1>4, <1>5, <1>6, <1>7 DEF Sound, LaneInv, j2

\* The executor ends and reports what it executed, or nothing.
LEMMA ReportKeeps ==
  ASSUME NEW l, NEW b, NEW h, NEW j, Sound(l, b, h, j),
         NEW report \in Records \cup {None},
         h.executor = "running",
         report # None => report.outcome # "COMPLIANT" /\ report.result = h.executed
  PROVE  Sound(l, b, Reporting(h, report), j)
<1> DEFINE h2 == Reporting(h, report)
<1>0. b \in Builds /\ h \in Hosts /\ j \in JobStates /\ j.value \in Documents
  BY DEF Sound, JobStates
<1>1. /\ h2 \in Hosts /\ h2.directories = h.directories /\ h2.executor = "ended" /\ h2.times = h.times
      /\ h2.executed = h.executed /\ h2.report = report /\ h2.record = h.record /\ h2.chronology = h.chronology
      /\ h.times = 1
  BY <1>0 DEF Sound, LaneInv, Attempted, Hosts, Reporting
<1> HIDE DEF h2
<1>2. Attempted(b, h2, j)
  BY <1>1 DEF Sound, LaneInv, Attempted, Early, Protected, Steps
<1>3. Planned(b, h2, j)
  BY <1>1 DEF Sound, LaneInv, Planned, Published, Telling, Early, Steps
<1>4. Recorded(b, h2, j)
  BY <1>1 DEF Sound, LaneInv, Recorded
<1>5. Knows(l, b, h2, j)
  BY <1>1 DEF Sound, LaneInv, Knows, Early, Writing, Telling, Complete, IsEstablished, IsTold
<1>6. Passed(l, b, h2, j)
  BY <1>1 DEF Sound, LaneInv, Passed, Complete, IsEstablished, IsTold
<1> QED
  BY <1>1, <1>2, <1>3, <1>4, <1>5, <1>6 DEF Sound, LaneInv, h2

\* The exit status of the executor.
LEMMA AwaitKeeps ==
  ASSUME NEW l, NEW b, NEW h, NEW j, Sound(l, b, h, j),
         j.step = "deploy",
         j.pc = "child",
         l \in Singles,
         h.executor = "ended"
  PROVE  Sound(l, b, h, Coded(j, "post", ExitStatus(h.report)))
<1> DEFINE j2 == Coded(j, "post", ExitStatus(h.report))
<1>0. b \in Builds /\ h \in Hosts /\ j \in JobStates /\ j.value \in Documents
  BY DEF Sound, JobStates
<1>1. /\ j2 \in JobStates /\ j2.step = j.step /\ j2.pc = "post" /\ j2.value = j.value
      /\ j2.code = ExitStatus(h.report) /\ j2.post = j.post /\ j2.failed = j.failed
  BY <1>0 DEF AllPlaces, Writing, JobStates, Coded, ExitStatus
<1> HIDE DEF j2
<1>2. Placed(j2)
  BY <1>1 DEF Sound, LaneInv, Placed, Places, Early, Writing, Telling, Steps
<1>3. Attempted(b, h, j2)
  BY <1>1 DEF Sound, LaneInv, Attempted, Early, Protected, Steps
<1>4. Planned(b, h, j2)
  BY <1>1 DEF Sound, LaneInv, Planned, Published, Telling, Early, Steps
<1>5. Recorded(b, h, j2)
  BY <1>1 DEF Sound, LaneInv, Recorded
<1>6. Knows(l, b, h, j2)
  BY <1>1 DEF Sound, LaneInv, Knows, Early, Writing, Telling, ExitStatus, Deserved
<1>7. Passed(l, b, h, j2)
  BY <1>1 DEF Sound, LaneInv, Passed
<1> QED
  BY <1>1, <1>2, <1>3, <1>4, <1>5, <1>6, <1>7 DEF Sound, LaneInv, j2

\* The POST observation, and whether there is a report.
LEMMA PostKeeps ==
  ASSUME NEW l, NEW b, NEW h, NEW j, Sound(l, b, h, j),
         j.step = "deploy",
         j.pc = "post",
         NEW post \in Ends
  PROVE  Sound(l, b, h, Posted(j, post, h.report = None))
<1> DEFINE j2 == Posted(j, post, h.report = None)
<1>0. b \in Builds /\ h \in Hosts /\ j \in JobStates /\ j.value \in Documents
  BY DEF Sound, JobStates
<1>1. /\ j2 \in JobStates /\ j2.step = j.step /\ j2.pc = IF h.report = None THEN "annotate" ELSE "record"
      /\ j2.value = j.value /\ j2.code = j.code /\ j2.post = post
      /\ (j2.failed <=> post # "SUCCEEDED" \/ h.report = None)
  BY <1>0 DEF AllPlaces, Writing, JobStates, Posted
<1> HIDE DEF j2
<1>2. Placed(j2)
  BY <1>1 DEF Sound, LaneInv, Placed, Places, Early, Writing, Telling, Steps
<1>3. Attempted(b, h, j2)
  BY <1>1 DEF Sound, LaneInv, Attempted, Early, Protected, Steps
<1>4. Planned(b, h, j2)
  BY <1>1 DEF Sound, LaneInv, Planned, Published, Telling, Early, Steps
<1>5. Recorded(b, h, j2)
  BY <1>1 DEF Sound, LaneInv, Recorded
<1>6. Knows(l, b, h, j2)
  BY <1>1 DEF Sound, LaneInv, Knows, Early, Writing, Telling
<1>7. Passed(l, b, h, j2)
  BY <1>1 DEF Sound, LaneInv, Passed
<1> QED
  BY <1>1, <1>2, <1>3, <1>4, <1>5, <1>6, <1>7 DEF Sound, LaneInv, j2

\* A rollout returns with its durable parent.
LEMMA RolloutRecordKeeps ==
  ASSUME NEW l, NEW b, NEW h, NEW j, Sound(l, b, h, j),
         j.step = "deploy",
         j.pc = "child",
         l \in Rollouts,
         h.executor = "ended",
         h.report # None
  PROVE  Sound(l, b, Recording(h, h.report), Coded(j, "receipt", IF h.report.outcome = "SUCCEEDED" THEN 0 ELSE 3))
<1> DEFINE h2 == Recording(h, h.report)
           j2 == Coded(j, "receipt", IF h.report.outcome = "SUCCEEDED" THEN 0 ELSE 3)
<1>0. b \in Builds /\ h \in Hosts /\ j \in JobStates /\ j.value \in Documents
  BY DEF Sound, JobStates
<1>1. /\ h2 \in Hosts /\ h2.directories = h.directories /\ h2.executor = h.executor /\ h2.times = h.times
      /\ h2.executed = h.executed /\ h2.report = h.report /\ h2.record = h.report
      /\ h2.chronology = h.chronology
  BY <1>0 DEF Hosts, Recording
<1>2. /\ j2 \in JobStates /\ j2.step = j.step /\ j2.pc = "receipt" /\ j2.value = j.value
      /\ j2.code = (IF h.report.outcome = "SUCCEEDED" THEN 0 ELSE 3) /\ j2.post = j.post /\ j2.failed = j.failed
  BY <1>0 DEF AllPlaces, JobStates, Coded
<1> HIDE DEF h2, j2
<1>3. Placed(j2)
  BY <1>1, <1>2 DEF Sound, LaneInv, Placed, Places, Early, Writing, Telling, Steps
<1>4. Attempted(b, h2, j2)
  BY <1>1, <1>2 DEF Sound, LaneInv, Attempted, Early, Protected, Steps
<1>5. Planned(b, h2, j2)
  BY <1>1, <1>2 DEF Sound, LaneInv, Planned, Published, Telling, Early, Steps
<1>6. Recorded(b, h2, j2)
  BY <1>1, <1>2 DEF Sound, LaneInv, Recorded, Knows
<1>7. Knows(l, b, h2, j2)
  <2>1. h.report.outcome # "COMPLIANT" /\ j.value.kind = "plan" /\ h.chronology = None /\ ~ j.failed
    BY DEF Sound, LaneInv, Recorded, Planned, Knows, Early
  <2>2. j2.code = 0 => Deserved(l, h2.record)
    BY <1>1, <1>2 DEF Deserved
  <2> QED
    BY <1>1, <1>2, <2>1, <2>2, Distinct DEF Knows, Early, Writing, Telling
<1>8. Passed(l, b, h2, j2)
  BY <1>1, <1>2 DEF Sound, LaneInv, Passed, Complete, IsEstablished, IsTold
<1> QED
  BY <1>1, <1>2, <1>3, <1>4, <1>5, <1>6, <1>7, <1>8 DEF Sound, LaneInv, h2, j2

\* A channel fails: the mark it leaves keeps the job from passing.
LEMMA FailingKeeps ==
  ASSUME NEW l, NEW b, NEW h, NEW j, Sound(l, b, h, j),
         j.step = "deploy",
         NEW pc,
         j.pc \in {"record", "persist", "receipt", "name"} \cup Telling,
         IF j.pc = "record" THEN pc = "persist" ELSE pc = "annotate"
  PROVE  Sound(l, b, h, Failing(j, pc))
<1> DEFINE j2 == Failing(j, pc)
<1>0. b \in Builds /\ h \in Hosts /\ j \in JobStates /\ j.value \in Documents
  BY DEF Sound, JobStates
<1>1. /\ j2 \in JobStates /\ j2.step = j.step /\ j2.pc = pc /\ j2.value = j.value /\ j2.code = j.code
      /\ j2.post = j.post /\ j2.failed = TRUE /\ pc \in {"persist", "annotate"}
  BY <1>0 DEF AllPlaces, Writing, JobStates, Failing
<1> HIDE DEF j2
<1>2. Placed(j2)
  BY <1>1 DEF Sound, LaneInv, Placed, Places, Early, Writing, Telling, Steps
<1>3. Attempted(b, h, j2)
  BY <1>1 DEF Sound, LaneInv, Attempted, Early, Protected, Steps
<1>4. Planned(b, h, j2)
  BY <1>1 DEF Sound, LaneInv, Planned, Published, Telling, Early, Steps
<1>5. Recorded(b, h, j2)
  BY <1>1 DEF Sound, LaneInv, Recorded
<1>6. Knows(l, b, h, j2)
  BY <1>1 DEF Sound, LaneInv, Knows, Early, Writing, Telling
<1>7. Passed(l, b, h, j2)
  BY <1>1 DEF Sound, LaneInv, Passed
<1> QED
  BY <1>1, <1>2, <1>3, <1>4, <1>5, <1>6, <1>7 DEF Sound, LaneInv, j2

\* The record goes up.
LEMMA UploadRecordKeeps ==
  ASSUME NEW l, NEW b, NEW h, NEW j, Sound(l, b, h, j),
         j.step = "deploy",
         j.pc = "record"
  PROVE  Sound(l, Uploaded(b, "record", h.report), h, Going(j, "persist"))
<1> DEFINE b2 == Uploaded(b, "record", h.report)
           j2 == Going(j, "persist")
<1>0. b \in Builds /\ h \in Hosts /\ j \in JobStates /\ j.value \in Documents
  BY DEF Sound, JobStates
<1>1. h.report \in Records \cup {None} /\ h.report \in Documents
  BY <1>0 DEF Hosts, Documents
<1>2. "record" \in Channels
  BY DEF Channels
<1>3. /\ b2 \in Builds /\ b2.meta = b.meta /\ b2.shown = b.shown /\ b2.approved = b.approved
      /\ b2.ended = b.ended /\ b2.passed = b.passed /\ b2.noWrite = b.noWrite
      /\ b2.artifact = [b.artifact EXCEPT !["record"] = h.report] /\ b.artifact \in [Channels -> Documents]
  BY <1>0, <1>1, <1>2, UploadedFields
<1>4. /\ j2 \in JobStates /\ j2.step = j.step /\ j2.pc = "persist" /\ j2.value = j.value /\ j2.code = j.code
      /\ j2.post = j.post /\ j2.failed = j.failed
  BY <1>0, <1>1, GoingFields DEF AllPlaces, Writing
<1> HIDE DEF b2, j2
<1>5. /\ b2.artifact["record"] = h.report /\ b2.artifact["planning"] = b.artifact["planning"]
      /\ b2.artifact["durable"] = b.artifact["durable"] /\ b2.artifact["chronology"] = b.artifact["chronology"]
  BY <1>3, <1>4 DEF Channels
<1>6. ChannelsTyped(b2)
  BY <1>3, <1>4, <1>5, <1>1 DEF Sound, LaneInv, ChannelsTyped, Channels
<1>7. Placed(j2)
  BY <1>3, <1>4, <1>5 DEF Sound, LaneInv, Placed, Places, Early, Writing, Telling, Steps
<1>8. Attempted(b2, h, j2)
  BY <1>3, <1>4, <1>5 DEF Sound, LaneInv, Attempted, Early, Protected, Steps
<1>9. Planned(b2, h, j2)
  BY <1>3, <1>4, <1>5 DEF Sound, LaneInv, Planned, Published, Telling, Early, Steps
<1>10. Recorded(b2, h, j2)
  BY <1>3, <1>4, <1>5 DEF Sound, LaneInv, Recorded
<1>11. Knows(l, b2, h, j2)
  BY <1>3, <1>4, <1>5 DEF Sound, LaneInv, Knows, Early, Writing, Telling, Complete, IsEstablished, IsTold
<1>12. Passed(l, b2, h, j2)
  BY <1>3, <1>4, <1>5 DEF Sound, LaneInv, Passed, Complete, IsEstablished, IsTold
<1> QED
  BY <1>3, <1>4, <1>5, <1>6, <1>7, <1>8, <1>9, <1>10, <1>11, <1>12 DEF Sound, LaneInv, b2, j2

\* The store takes the record once: that of the executor, or that of a compliant result.
LEMMA PersistKeeps ==
  ASSUME NEW l, NEW b, NEW h, NEW j, Sound(l, b, h, j),
         j.step = "deploy",
         j.pc = "persist",
         NEW record \in Records,
         record = IF j.value.kind = "compliance" THEN [result |-> j.value, outcome |-> "COMPLIANT"] ELSE h.report
  PROVE  Sound(l, b, Recording(h, record), Going(j, "receipt"))
<1> DEFINE h2 == Recording(h, record)
           j2 == Going(j, "receipt")
<1>0. b \in Builds /\ h \in Hosts /\ j \in JobStates /\ j.value \in Documents
  BY DEF Sound, JobStates
<1>1. j.value \in Results /\ j.value.kind \in {"plan", "compliance"}
  BY <1>0 DEF Sound, LaneInv, ChannelsTyped, Planned, Published, Plans, Results
<1>2. j.value.kind # "compliance" => h.report # None /\ h.report.outcome # "COMPLIANT"
  BY <1>0, <1>1 DEF Sound, LaneInv, Recorded, Knows
<1>3. record.outcome = "COMPLIANT" <=> j.value.kind = "compliance"
  BY <1>0, <1>1, <1>2
<1>4. record.outcome # "COMPLIANT" => record = h.report /\ record.result = h.executed /\ h.times = 1
  BY <1>0, <1>1, <1>2, <1>3 DEF Sound, LaneInv, Recorded
<1>5. /\ h2 \in Hosts /\ h2.directories = h.directories /\ h2.executor = h.executor /\ h2.times = h.times
      /\ h2.executed = h.executed /\ h2.report = h.report /\ h2.record = record /\ h2.chronology = h.chronology
  BY <1>0, <1>1, <1>2, <1>3, <1>4 DEF Hosts, Recording
<1>6. /\ j2 \in JobStates /\ j2.step = j.step /\ j2.pc = "receipt" /\ j2.value = j.value /\ j2.code = j.code
      /\ j2.post = j.post /\ j2.failed = j.failed
  BY <1>0, <1>1, <1>2, <1>3, <1>4, GoingFields DEF AllPlaces, Writing
<1> HIDE DEF h2, j2
<1>7. Placed(j2)
  BY <1>5, <1>6 DEF Sound, LaneInv, Placed, Places, Early, Writing, Telling, Steps
<1>8. Attempted(b, h2, j2)
  BY <1>5, <1>6 DEF Sound, LaneInv, Attempted, Early, Protected, Steps
<1>9. Planned(b, h2, j2)
  BY <1>5, <1>6 DEF Sound, LaneInv, Planned, Published, Telling, Early, Steps
<1>10. Recorded(b, h2, j2)
  <2>1. h.record = None
    BY DEF Sound, LaneInv, Knows, Writing
  <2> QED
    BY <1>4, <1>5, <1>6, <2>1 DEF Sound, LaneInv, Recorded
<1>11. Knows(l, b, h2, j2)
  <2>1. l \in Singles /\ h.chronology = None /\ h.executor # "running"
    BY DEF Sound, LaneInv, Knows, Early, Writing, Telling
  <2>2. j2.code = 0 => Deserved(l, h2.record)
    BY <1>3, <1>4, <1>5, <1>6, Distinct DEF Sound, LaneInv, Knows, Deserved, Writing
  <2>3. ~ j2.failed /\ j2.value.kind = "plan" => j2.post = "SUCCEEDED"
    BY <1>6, <2>1 DEF Sound, LaneInv, Knows
  <2> QED
    BY <1>3, <1>5, <1>6, <2>1, <2>2, <2>3, Distinct DEF Knows, Early, Writing, Telling
<1>12. Passed(l, b, h2, j2)
  BY <1>5, <1>6 DEF Sound, LaneInv, Passed, Complete, IsEstablished, IsTold
<1> QED
  BY <1>5, <1>6, <1>7, <1>8, <1>9, <1>10, <1>11, <1>12 DEF Sound, LaneInv, h2, j2

\* The receipt of the record goes up.
LEMMA UploadReceiptKeeps ==
  ASSUME NEW l, NEW b, NEW h, NEW j, Sound(l, b, h, j),
         j.step = "deploy",
         j.pc = "receipt"
  PROVE  Sound(l, Uploaded(b, "durable", h.record), h, Going(j, "name"))
<1> DEFINE b2 == Uploaded(b, "durable", h.record)
           j2 == Going(j, "name")
<1>0. b \in Builds /\ h \in Hosts /\ j \in JobStates /\ j.value \in Documents
  BY DEF Sound, JobStates
<1>1. h.record \in Records \cup {None} /\ h.record \in Documents
  BY <1>0 DEF Hosts, Documents
<1>2. "durable" \in Channels
  BY DEF Channels
<1>3. /\ b2 \in Builds /\ b2.meta = b.meta /\ b2.shown = b.shown /\ b2.approved = b.approved
      /\ b2.ended = b.ended /\ b2.passed = b.passed /\ b2.noWrite = b.noWrite
      /\ b2.artifact = [b.artifact EXCEPT !["durable"] = h.record] /\ b.artifact \in [Channels -> Documents]
  BY <1>0, <1>1, <1>2, UploadedFields
<1>4. /\ j2 \in JobStates /\ j2.step = j.step /\ j2.pc = "name" /\ j2.value = j.value /\ j2.code = j.code
      /\ j2.post = j.post /\ j2.failed = j.failed
  BY <1>0, <1>1, GoingFields DEF AllPlaces
<1> HIDE DEF b2, j2
<1>5. /\ b2.artifact["durable"] = h.record /\ b2.artifact["planning"] = b.artifact["planning"]
      /\ b2.artifact["record"] = b.artifact["record"] /\ b2.artifact["chronology"] = b.artifact["chronology"]
  BY <1>3, <1>4 DEF Channels
<1>6. ChannelsTyped(b2)
  BY <1>3, <1>4, <1>5, <1>1 DEF Sound, LaneInv, ChannelsTyped, Channels
<1>7. Placed(j2)
  BY <1>3, <1>4, <1>5 DEF Sound, LaneInv, Placed, Places, Early, Writing, Telling, Steps
<1>8. Attempted(b2, h, j2)
  BY <1>3, <1>4, <1>5 DEF Sound, LaneInv, Attempted, Early, Protected, Steps
<1>9. Planned(b2, h, j2)
  BY <1>3, <1>4, <1>5 DEF Sound, LaneInv, Planned, Published, Telling, Early, Steps
<1>10. Recorded(b2, h, j2)
  BY <1>3, <1>4, <1>5 DEF Sound, LaneInv, Recorded
<1>11. Knows(l, b2, h, j2)
  BY <1>3, <1>4, <1>5 DEF Sound, LaneInv, Knows, Early, Writing, Telling, Complete, IsEstablished, IsTold
<1>12. Passed(l, b2, h, j2)
  BY <1>3, <1>4, <1>5 DEF Sound, LaneInv, Passed, Complete, IsEstablished, IsTold
<1> QED
  BY <1>3, <1>4, <1>5, <1>6, <1>7, <1>8, <1>9, <1>10, <1>11, <1>12 DEF Sound, LaneInv, b2, j2

\* The receipt is named: without a chronology to come the job may pass.
LEMMA NameReceiptKeeps ==
  ASSUME NEW l, NEW b, NEW h, NEW j, Sound(l, b, h, j),
         j.step = "deploy",
         j.pc = "name",
         NEW pc,
         pc = IF l \in Singles /\ j.value.kind = "plan" THEN "chronology" ELSE "annotate"
  PROVE  Sound(l, NamedIn(b, "durable", h.record), h, Going(j, pc))
<1> DEFINE b2 == NamedIn(b, "durable", h.record)
           j2 == Going(j, pc)
<1>0. b \in Builds /\ h \in Hosts /\ j \in JobStates /\ j.value \in Documents
  BY DEF Sound, JobStates
<1>1. h.record \in Records \cup {None} /\ h.record \in Documents
  BY <1>0 DEF Hosts, Documents
<1>2. "durable" \in Channels
  BY DEF Channels
<1>3. /\ b2 \in Builds /\ b2.artifact = b.artifact /\ b2.shown = b.shown /\ b2.approved = b.approved
      /\ b2.ended = b.ended /\ b2.passed = b.passed /\ b2.noWrite = b.noWrite
      /\ b2.meta = [b.meta EXCEPT !["durable"] = h.record] /\ b.meta \in [Channels -> Documents]
  BY <1>0, <1>1, <1>2, NamedInFields
<1>4. /\ j2 \in JobStates /\ j2.step = j.step /\ j2.pc = pc /\ j2.value = j.value /\ j2.code = j.code
      /\ j2.post = j.post /\ j2.failed = j.failed /\ pc \in {"chronology", "annotate"}
  BY <1>0, <1>1, GoingFields DEF AllPlaces, Telling
<1> HIDE DEF b2, j2
<1>5. /\ b2.meta["durable"] = h.record /\ b2.meta["planning"] = b.meta["planning"]
      /\ b2.meta["record"] = b.meta["record"] /\ b2.meta["chronology"] = b.meta["chronology"]
  BY <1>3, <1>4 DEF Channels
<1>6. ChannelsTyped(b2)
  BY <1>3, <1>4, <1>5, <1>1 DEF Sound, LaneInv, ChannelsTyped, Channels
<1>7. Placed(j2)
  BY <1>3, <1>4, <1>5 DEF Sound, LaneInv, Placed, Places, Early, Writing, Telling, Steps
<1>8. Attempted(b2, h, j2)
  BY <1>3, <1>4, <1>5 DEF Sound, LaneInv, Attempted, Early, Protected, Steps
<1>9. Planned(b2, h, j2)
  BY <1>3, <1>4, <1>5 DEF Sound, LaneInv, Planned, Published, Telling, Early, Steps
<1>10. Recorded(b2, h, j2)
  BY <1>3, <1>4, <1>5 DEF Sound, LaneInv, Recorded
<1>11. Knows(l, b2, h, j2)
  <2>1. h.record # None /\ h.chronology = None /\ h.executor # "running" /\ b2.artifact["durable"] = h.record
        /\ (h.record.outcome = "COMPLIANT" <=> j.value.kind = "compliance")
        /\ (l \in Rollouts => j.value.kind = "plan") /\ (j.code = 0 => Deserved(l, h.record))
        /\ (l \in Singles /\ ~ j.failed /\ j.value.kind = "plan" => j.post = "SUCCEEDED")
    BY <1>3 DEF Sound, LaneInv, Knows, Early, Writing, Telling
  <2>2. j.value.kind \in {"plan", "compliance"}
    BY DEF Sound, LaneInv, ChannelsTyped, Planned, Published, Plans, Results
  <2>3. j2.pc = "annotate" /\ j2.code = 0 => Complete(l, b2, h)
    BY <1>4, <1>5, <2>1, <2>2 DEF Sound, Lanes, Complete, IsEstablished
  <2> QED
    BY <1>4, <1>5, <2>1, <2>3, Distinct DEF Sound, Lanes, Knows, Early, Writing, Telling
<1>12. Passed(l, b2, h, j2)
  BY <1>3, <1>4, <1>5 DEF Sound, LaneInv, Passed, Complete, IsEstablished, IsTold
<1> QED
  BY <1>3, <1>4, <1>5, <1>6, <1>7, <1>8, <1>9, <1>10, <1>11, <1>12 DEF Sound, LaneInv, b2, j2

\* Without a POST there is no chronology, and the job does not pass.
LEMMA NoPostKeeps ==
  ASSUME NEW l, NEW b, NEW h, NEW j, Sound(l, b, h, j),
         j.step = "deploy",
         j.pc = "chronology",
         j.post = None
  PROVE  Sound(l, b, h, Going(j, "annotate"))
<1> DEFINE j2 == Going(j, "annotate")
<1>0. b \in Builds /\ h \in Hosts /\ j \in JobStates /\ j.value \in Documents
  BY DEF Sound, JobStates
<1>1. /\ j2 \in JobStates /\ j2.step = j.step /\ j2.pc = "annotate" /\ j2.value = j.value /\ j2.code = j.code
      /\ j2.post = j.post /\ j2.failed = j.failed
  BY <1>0, GoingFields DEF AllPlaces
<1> HIDE DEF j2
<1>2. Placed(j2)
  BY <1>1 DEF Sound, LaneInv, Placed, Places, Early, Writing, Telling, Steps
<1>3. Attempted(b, h, j2)
  BY <1>1 DEF Sound, LaneInv, Attempted, Early, Protected, Steps
<1>4. Planned(b, h, j2)
  BY <1>1 DEF Sound, LaneInv, Planned, Published, Telling, Early, Steps
<1>5. Recorded(b, h, j2)
  BY <1>1 DEF Sound, LaneInv, Recorded
<1>6. Knows(l, b, h, j2)
  BY <1>1, Distinct DEF Sound, LaneInv, Knows, Early, Writing, Telling, Planned, Overall
<1>7. Passed(l, b, h, j2)
  BY <1>1 DEF Sound, LaneInv, Passed
<1> QED
  BY <1>1, <1>2, <1>3, <1>4, <1>5, <1>6, <1>7 DEF Sound, LaneInv, j2

\* The chronology is saved.
LEMMA ChronologyKeeps ==
  ASSUME NEW l, NEW b, NEW h, NEW j, Sound(l, b, h, j),
         j.step = "deploy",
         j.pc = "chronology"
  PROVE  Sound(l, b, Chronicling(h, j.post), Going(j, "chronology file"))
<1> DEFINE h2 == Chronicling(h, j.post)
           j2 == Going(j, "chronology file")
<1>0. b \in Builds /\ h \in Hosts /\ j \in JobStates /\ j.value \in Documents
  BY DEF Sound, JobStates
<1>1. /\ h2 \in Hosts /\ h2.directories = h.directories /\ h2.executor = h.executor /\ h2.times = h.times
      /\ h2.executed = h.executed /\ h2.report = h.report /\ h2.record = h.record /\ h2.chronology = j.post
  BY <1>0 DEF Hosts, JobStates, Chronicling
<1>2. /\ j2 \in JobStates /\ j2.step = j.step /\ j2.pc = "chronology file" /\ j2.value = j.value
      /\ j2.code = j.code /\ j2.post = j.post /\ j2.failed = j.failed
  BY <1>0, GoingFields DEF AllPlaces, Telling
<1> HIDE DEF h2, j2
<1>3. Placed(j2)
  BY <1>1, <1>2 DEF Sound, LaneInv, Placed, Places, Early, Writing, Telling, Steps
<1>4. Attempted(b, h2, j2)
  BY <1>1, <1>2 DEF Sound, LaneInv, Attempted, Early, Protected, Steps
<1>5. Planned(b, h2, j2)
  BY <1>1, <1>2 DEF Sound, LaneInv, Planned, Published, Telling, Early, Steps
<1>6. Recorded(b, h2, j2)
  BY <1>1, <1>2 DEF Sound, LaneInv, Recorded, Knows, Telling
<1>7. Knows(l, b, h2, j2)
  BY <1>1, <1>2 DEF Sound, LaneInv, Knows, Early, Writing, Telling, Complete, IsEstablished, IsTold
<1>8. Passed(l, b, h2, j2)
  BY <1>1, <1>2 DEF Sound, LaneInv, Passed, Complete, IsEstablished, IsTold
<1> QED
  BY <1>1, <1>2, <1>3, <1>4, <1>5, <1>6, <1>7, <1>8 DEF Sound, LaneInv, h2, j2

\* The chronology goes up.
LEMMA UploadChronologyKeeps ==
  ASSUME NEW l, NEW b, NEW h, NEW j, Sound(l, b, h, j),
         j.step = "deploy",
         j.pc = "chronology file"
  PROVE  Sound(l, Uploaded(b, "chronology", j.post), h, Going(j, "chronology name"))
<1> DEFINE b2 == Uploaded(b, "chronology", j.post)
           j2 == Going(j, "chronology name")
<1>0. b \in Builds /\ h \in Hosts /\ j \in JobStates /\ j.value \in Documents
  BY DEF Sound, JobStates
<1>1. j.post \in Ends
  BY <1>0 DEF JobStates
<1>2. b \in Builds /\ j.post \in Documents
  BY <1>0, <1>1 DEF Ends, Documents
<1>3. "chronology" \in Channels
  BY DEF Channels
<1>4. /\ b2 \in Builds /\ b2.meta = b.meta /\ b2.shown = b.shown /\ b2.approved = b.approved
      /\ b2.ended = b.ended /\ b2.passed = b.passed /\ b2.noWrite = b.noWrite
      /\ b2.artifact = [b.artifact EXCEPT !["chronology"] = j.post] /\ b.artifact \in [Channels -> Documents]
  BY ONLY <1>0, <1>1, <1>2, <1>3, UploadedFields
<1>5. /\ j2 \in JobStates /\ j2.step = j.step /\ j2.pc = "chronology name" /\ j2.value = j.value
      /\ j2.code = j.code /\ j2.post = j.post /\ j2.failed = j.failed
  BY ONLY <1>0, <1>1, <1>2, GoingFields DEF AllPlaces, Telling
<1> HIDE DEF b2, j2
<1>6. /\ b2.artifact["chronology"] = j.post /\ b2.artifact["planning"] = b.artifact["planning"]
      /\ b2.artifact["record"] = b.artifact["record"] /\ b2.artifact["durable"] = b.artifact["durable"]
  BY <1>4, <1>5 DEF Channels
<1>7. ChannelsTyped(b2)
  BY <1>4, <1>5, <1>6, <1>1 DEF Sound, LaneInv, ChannelsTyped, Channels
<1>8. Placed(j2)
  BY <1>4, <1>5, <1>6 DEF Sound, LaneInv, Placed, Places, Early, Writing, Telling, Steps
<1>9. Attempted(b2, h, j2)
  BY <1>4, <1>5, <1>6 DEF Sound, LaneInv, Attempted, Early, Protected, Steps
<1>10. Planned(b2, h, j2)
  BY <1>4, <1>5, <1>6 DEF Sound, LaneInv, Planned, Published, Telling, Early, Steps
<1>11. Recorded(b2, h, j2)
  BY <1>4, <1>5, <1>6 DEF Sound, LaneInv, Recorded, Knows, Telling
<1>12. Knows(l, b2, h, j2)
  BY <1>4, <1>5, <1>6 DEF Sound, LaneInv, Knows, Early, Writing, Telling, Complete, IsEstablished, IsTold
<1>13. Passed(l, b2, h, j2)
  BY <1>4, <1>5, <1>6 DEF Sound, LaneInv, Passed, Complete, IsEstablished, IsTold
<1> QED
  BY <1>4, <1>5, <1>6, <1>7, <1>8, <1>9, <1>10, <1>11, <1>12, <1>13 DEF Sound, LaneInv, b2, j2

\* The chronology is named: the job may pass.
LEMMA NameChronologyKeeps ==
  ASSUME NEW l, NEW b, NEW h, NEW j, Sound(l, b, h, j),
         j.step = "deploy",
         j.pc = "chronology name"
  PROVE  Sound(l, NamedIn(b, "chronology", j.post), h, Going(j, "annotate"))
<1> DEFINE b2 == NamedIn(b, "chronology", j.post)
           j2 == Going(j, "annotate")
<1>0. b \in Builds /\ h \in Hosts /\ j \in JobStates /\ j.value \in Documents
  BY DEF Sound, JobStates
<1>1. j.post \in Ends
  BY <1>0 DEF JobStates
<1>2. b \in Builds /\ j.post \in Documents
  BY <1>0, <1>1 DEF Ends, Documents
<1>3. "chronology" \in Channels
  BY DEF Channels
<1>4. /\ b2 \in Builds /\ b2.artifact = b.artifact /\ b2.shown = b.shown /\ b2.approved = b.approved
      /\ b2.ended = b.ended /\ b2.passed = b.passed /\ b2.noWrite = b.noWrite
      /\ b2.meta = [b.meta EXCEPT !["chronology"] = j.post] /\ b.meta \in [Channels -> Documents]
  BY ONLY <1>0, <1>1, <1>2, <1>3, NamedInFields
<1>5. /\ j2 \in JobStates /\ j2.step = j.step /\ j2.pc = "annotate" /\ j2.value = j.value /\ j2.code = j.code
      /\ j2.post = j.post /\ j2.failed = j.failed
  BY ONLY <1>0, <1>1, <1>2, GoingFields DEF AllPlaces
<1> HIDE DEF b2, j2
<1>6. /\ b2.meta["chronology"] = j.post /\ b2.meta["planning"] = b.meta["planning"]
      /\ b2.meta["record"] = b.meta["record"] /\ b2.meta["durable"] = b.meta["durable"]
  BY <1>4, <1>5 DEF Channels
<1>7. ChannelsTyped(b2)
  BY <1>4, <1>5, <1>6, <1>1 DEF Sound, LaneInv, ChannelsTyped, Channels
<1>8. Placed(j2)
  BY <1>4, <1>5, <1>6 DEF Sound, LaneInv, Placed, Places, Early, Writing, Telling, Steps
<1>9. Attempted(b2, h, j2)
  BY <1>4, <1>5, <1>6 DEF Sound, LaneInv, Attempted, Early, Protected, Steps
<1>10. Planned(b2, h, j2)
  BY <1>4, <1>5, <1>6 DEF Sound, LaneInv, Planned, Published, Telling, Early, Steps
<1>11. Recorded(b2, h, j2)
  BY <1>4, <1>5, <1>6 DEF Sound, LaneInv, Recorded
<1>12. Knows(l, b2, h, j2)
  BY <1>4, <1>5, <1>6 DEF Sound, LaneInv, Knows, Early, Writing, Telling, Complete, IsEstablished, IsTold, Planned
<1>13. Passed(l, b2, h, j2)
  BY <1>4, <1>5, <1>6 DEF Sound, LaneInv, Passed, Complete, IsEstablished, IsTold
<1> QED
  BY <1>4, <1>5, <1>6, <1>7, <1>8, <1>9, <1>10, <1>11, <1>12, <1>13 DEF Sound, LaneInv, b2, j2

\* An evidence job has read a typed record.
LEMMA ReadRecordKeeps ==
  ASSUME NEW l, NEW b, NEW h, NEW j, Sound(l, b, h, j),
         j.step = "evidence",
         j.pc = "begun",
         NEW record \in Records,
         record.outcome = "COMPLIANT" \/ record = b.artifact["record"]
  PROVE  Sound(l, b, h, Taking(j, record, "receipts"))
<1> DEFINE j2 == Taking(j, record, "receipts")
<1>0. b \in Builds /\ h \in Hosts /\ j \in JobStates /\ j.value \in Documents
  BY DEF Sound, JobStates
<1>1. record \in Documents
  BY <1>0 DEF Documents
<1>2. /\ j2 \in JobStates /\ j2.step = j.step /\ j2.pc = "receipts" /\ j2.value = record /\ j2.code = j.code
      /\ j2.post = j.post /\ j2.failed = j.failed
  BY <1>0, <1>1, TakingFields DEF AllPlaces
<1> HIDE DEF j2
<1>3. Placed(j2)
  BY <1>2 DEF Sound, LaneInv, Placed, Places, Early, Writing, Telling, Steps
<1>4. Attempted(b, h, j2)
  BY <1>2 DEF Sound, LaneInv, Attempted, Early, Protected, Steps
<1>5. Planned(b, h, j2)
  BY <1>2 DEF Sound, LaneInv, Planned, Published, Telling, Early, Steps
<1>6. Recorded(b, h, j2)
  BY <1>2 DEF Sound, LaneInv, Recorded
<1>7. Knows(l, b, h, j2)
  BY <1>2 DEF Sound, LaneInv, Knows, Early, Writing, Telling
<1>8. Passed(l, b, h, j2)
  BY <1>2 DEF Sound, LaneInv, Passed
<1> QED
  BY <1>2, <1>3, <1>4, <1>5, <1>6, <1>7, <1>8 DEF Sound, LaneInv, j2

-----------------------------------------------------------------------------
(* From a lane to the system. *)

\* What every step below starts from.
LEMMA Same ==
  ASSUME IInv, NEW l \in Lanes
  PROVE  /\ build = [build EXCEPT ![l] = build[l]] /\ host = [host EXCEPT ![l] = host[l]]
         /\ job = [job EXCEPT ![l] = job[l]] /\ Sound(l, build[l], host[l], job[l])
         /\ faults \in 0 .. MaxFaults /\ (Fault => faults' \in 0 .. MaxFaults)
BY DeliveryAssumption DEF IInv, Typed, Fault

\* One lane moves, the others keep what they have; the lock and the place in
\* the group may come to that lane or leave it.
LEMMA LaneStep ==
  ASSUME IInv, NEW l \in Lanes, NEW b, NEW h, NEW j, Sound(l, b, h, j),
         build' = [build EXCEPT ![l] = b], host' = [host EXCEPT ![l] = h], job' = [job EXCEPT ![l] = j],
         slot' \in Lanes \cup {None}, lock' \in Lanes \cup {None}, faults' \in 0 .. MaxFaults,
         \A k \in Lanes \ {l} : (slot' = k => slot = k) /\ (lock' = k <=> lock = k),
         j.pc \in Holding => lock' = l,
         lock' = l => j.step = "deploy", slot' = l => j.step \in Protected
  PROVE  IInv'
<1>1. build' \in [Lanes -> Builds] /\ host' \in [Lanes -> Hosts] /\ job' \in [Lanes -> JobStates]
  BY DEF IInv, Typed, Sound
<1>2. build'[l] = b /\ host'[l] = h /\ job'[l] = j
  BY DEF IInv, Typed
<1>3. \A k \in Lanes \ {l} : build'[k] = build[k] /\ host'[k] = host[k] /\ job'[k] = job[k]
  BY DEF IInv, Typed
<1>4. Typed'
  BY <1>1 DEF Typed
<1>5. Owned'
  BY <1>2, <1>3 DEF IInv, Owned
<1>6. \A k \in Lanes : Sound(k, build'[k], host'[k], job'[k])
  BY <1>2, <1>3 DEF IInv
<1> QED
  BY <1>4, <1>5, <1>6 DEF IInv

\* A job goes on with what it holds.
LEMMA MoveStep ==
  ASSUME IInv, NEW l \in Lanes, NEW b, NEW h, NEW j, Sound(l, b, h, j),
         build' = [build EXCEPT ![l] = b], host' = [host EXCEPT ![l] = h], job' = [job EXCEPT ![l] = j],
         slot' = slot, lock' = lock, faults' \in 0 .. MaxFaults, j.step = job[l].step,
         j.pc \in Holding => job[l].pc \in Holding
  PROVE  IInv'
<1>1. slot \in Lanes \cup {None} /\ lock \in Lanes \cup {None}
  BY DEF IInv, Typed
<1>2. /\ j.pc \in Holding => lock = l
      /\ lock = l => j.step = "deploy" /\ (slot = l => j.step \in Protected)
      /\ slot = l => j.step \in Protected
  BY DEF IInv, Owned
<1> QED
  BY <1>1, <1>2, LaneStep

\* A job ends.
LEMMA ExitStep ==
  ASSUME IInv, NEW l \in Lanes, NEW b, NEW h, NEW code, Exit(l, b, code), host' = [host EXCEPT ![l] = h],
         faults' \in 0 .. MaxFaults, Sound(l, Left(b, job[l].step, code), h, Idle)
  PROVE  IInv'
<1>1. build' = [build EXCEPT ![l] = Left(b, job[l].step, code)] /\ job' = [job EXCEPT ![l] = Idle]
  BY DEF Exit, Left
<1>2. /\ slot' \in Lanes \cup {None} /\ lock' \in Lanes \cup {None} /\ slot' # l /\ lock' # l
      /\ \A k \in Lanes \ {l} : (slot' = k => slot = k) /\ (lock' = k <=> lock = k)
  BY Distinct DEF Exit, IInv, Typed
<1>3. Idle.pc \notin Holding
  BY DEF Idle, Holding
<1> QED
  BY <1>1, <1>2, <1>3, LaneStep

\* A job ends with an exit status that it need not deserve.
LEMMA FailStep ==
  ASSUME IInv, NEW l \in Lanes, NEW code \in {2, 3}, Exit(l, build[l], code), job[l].pc # "idle",
         UNCHANGED host, faults' \in 0 .. MaxFaults
  PROVE  IInv'
<1>1. Sound(l, Left(build[l], job[l].step, code), host[l], Idle)
  BY Same, ExitKeeps
<1> QED
  BY <1>1, Same, ExitStep

\* A deploy job ends before its executor.
LEMMA RefuseStep ==
  ASSUME IInv, NEW l \in Lanes, Refuse(l), job[l].step = "deploy", job[l].pc \in Early,
         UNCHANGED host, faults' \in 0 .. MaxFaults
  PROVE  IInv'
<1> DEFINE said == l \in Singles
           code == IF said THEN 2 ELSE 3
<1>1. Exit(l, Warned(build[l], said), code) /\ code \in {2, 3} /\ said \in BOOLEAN
  BY DEF Refuse, Warned
<1> HIDE DEF said, code
<1>2. Sound(l, Left(Warned(build[l], said), job[l].step, code), host[l], Idle)
  BY <1>1, Same, RefuseKeeps
<1> QED
  BY <1>1, <1>2, Same, ExitStep

\* A step begins, or begins once more.
LEMMA BeginStep ==
  ASSUME IInv, NEW l \in Lanes, NEW s \in Steps, Begin(l, s)
  PROVE  IInv'
<1> DEFINE h2 == Attempting(host[l], s)
           j2 == Begun(job[l], s)
<1>1. host' = [host EXCEPT ![l] = h2] /\ job' = [job EXCEPT ![l] = j2]
  BY DEF Begin, Attempting, Begun, IInv, Typed
<1>2. job[l].pc = "idle" /\ (s \in Protected => s \notin host[l].directories)
  BY DEF Begin, Fresh
<1>3. s = "evidence" => "deploy" \in build[l].ended
  BY Distinct DEF Begin, Released, Over
<1>4. Sound(l, build[l], h2, j2)
  BY <1>2, <1>3, Same, BeginKeeps
<1>5. j2.step = s /\ j2.pc = "begun"
  BY DEF Begun, IInv, Typed, JobStates
<1>6. lock # l /\ slot # l
  BY <1>2, Same, Distinct DEF IInv, Owned, Sound, LaneInv, Placed, Idle, Protected, Steps
<1>7. faults' \in 0 .. MaxFaults /\ slot' = (IF s \in Protected THEN l ELSE slot)
      /\ (s \in Protected => slot = None) /\ lock' = lock /\ build' = build
  BY Same DEF Begin
<1> HIDE DEF h2, j2
<1>8. slot \in Lanes \cup {None} /\ lock \in Lanes \cup {None}
  BY DEF IInv, Typed
<1> QED
  BY <1>1, <1>4, <1>5, <1>6, <1>7, <1>8, Same, LaneStep, Distinct DEF Holding

\* A person unblocks the build.
LEMMA UnblockStep ==
  ASSUME IInv, NEW l \in Lanes, Unblock(l)
  PROVE  IInv'
<1>1. build' = [build EXCEPT ![l] = Unblocked(build[l])]
  BY DEF Unblock, Unblocked, IInv, Typed
<1>2. Sound(l, Unblocked(build[l]), host[l], job[l])
  BY Same, UnblockKeeps
<1>3. /\ host' = [host EXCEPT ![l] = host[l]] /\ job' = [job EXCEPT ![l] = job[l]]
      /\ slot' = slot /\ lock' = lock /\ faults' \in 0 .. MaxFaults
  BY Same DEF Unblock, shared
<1> QED
  BY <1>1, <1>2, <1>3, MoveStep

\* A job is killed; its executor may stay behind.
LEMMA CrashStep ==
  ASSUME IInv, NEW l \in Lanes, Crash(l)
  PROVE  IInv'
<1>1. PICK h \in {host[l], Stopped(host[l])} : host' = [host EXCEPT ![l] = h]
  <2>1. PICK orphaned \in BOOLEAN :
           host' = [host EXCEPT ![l].executor =
                       IF @ = "running" /\ ~ (orphaned /\ l \in Singles) THEN "ended" ELSE @]
    BY DEF Crash
  <2>2. CASE host[l].executor = "running" /\ ~ (orphaned /\ l \in Singles)
    BY <2>1, <2>2 DEF Stopped
  <2>3. CASE ~ (host[l].executor = "running" /\ ~ (orphaned /\ l \in Singles))
    BY <2>1, <2>3 DEF IInv, Typed, Hosts
  <2> QED
    BY <2>2, <2>3
<1>2. Sound(l, build[l], h, job[l])
  BY Same, StopKeeps
<1>3. Sound(l, Left(build[l], job[l].step, 2), h, Idle)
  BY <1>2, ExitKeeps DEF Crash
<1> QED
  BY <1>1, <1>3, Same, ExitStep DEF Crash

\* Buildkite gives up a job whose process runs on.
LEMMA LostStep ==
  ASSUME IInv, NEW l \in Lanes, Lost(l)
  PROVE  IInv'
<1> DEFINE b == GivenUp(build[l], job[l].step)
<1>1. build' = [build EXCEPT ![l] = b]
  BY DEF Lost, GivenUp, IInv, Typed
<1>2. job[l].step \in Protected /\ job[l].pc # "idle"
  BY Same, Distinct DEF Lost, IInv, Owned, Sound, LaneInv, Placed, Idle, Protected, Steps
<1>3. Sound(l, b, host[l], job[l])
  BY <1>2, Same, LostKeeps
<1> HIDE DEF b
<1>4. lock \in Lanes \cup {None} /\ (job[l].pc \in Holding => lock = l)
      /\ (lock = l => job[l].step = "deploy")
  BY DEF IInv, Typed, Owned
<1>5. /\ host' = [host EXCEPT ![l] = host[l]] /\ job' = [job EXCEPT ![l] = job[l]]
      /\ slot' = None /\ lock' = lock /\ faults' \in 0 .. MaxFaults
  BY Same DEF Lost
<1>6. slot' # l /\ \A k \in Lanes \ {l} : (slot' = k => slot = k) /\ (lock' = k <=> lock = k)
  BY <1>5, Distinct
<1> QED
  BY <1>1, <1>3, <1>4, <1>5, <1>6, LaneStep

\* A call raises in plan, promotion or evidence.
LEMMA RaisesStep ==
  ASSUME IInv, NEW l \in Lanes, Raises(l)
  PROVE  IInv'
<1>1. job[l].pc # "idle"
  BY Same, Distinct DEF Raises, Sound, LaneInv, Placed, Idle, Steps
<1> QED
  BY <1>1, Same, FailStep DEF Raises

\* A plan job takes what it has observed.
LEMMA ObservedStep ==
  ASSUME IInv, NEW l \in Lanes, At(l, "plan", "begun"), Observed(l), UNCHANGED <<host, faults>>
  PROVE  IInv'
<1>1. PICK r \in Results : job' = [job EXCEPT ![l].value = r, ![l].pc = "upload"]
  BY DEF Observed
<1> DEFINE j2 == Taking(job[l], r, "upload")
<1>2. /\ build' = [build EXCEPT ![l] = build[l]] /\ host' = [host EXCEPT ![l] = host[l]]
      /\ job' = [job EXCEPT ![l] = j2]
      /\ slot' = slot /\ lock' = lock /\ faults' \in 0 .. MaxFaults
  BY <1>1, Same DEF Observed, Taking, IInv, Typed
<1>3. Sound(l, build[l], host[l], j2)
  BY <1>1, Same, ObserveKeeps DEF At
<1>4. j2.step = job[l].step /\ (j2.pc \in Holding => job[l].pc \in Holding)
  BY DEF Holding, IInv, Typed, JobStates, Taking
<1> HIDE DEF j2
<1> QED
  BY <1>2, <1>3, <1>4, MoveStep

\* The steps of plan_step and rollout_plan_step.
LEMMA PlanStep ==
  ASSUME IInv, NEW l \in Lanes, Plan(l)
  PROVE  IInv'
<1>1. CASE Collect(l)
  BY <1>1, ObservedStep DEF Collect
<1>2. CASE CollectRollout(l)
  <2>1. CASE build[l].receipts = Prerequisites
    BY <1>2, <2>1, ObservedStep DEF CollectRollout
  <2>2. CASE build[l].receipts # Prerequisites
    BY <1>2, <2>2, Same, FailStep DEF CollectRollout, At
  <2> QED
    BY <2>1, <2>2
<1>3. CASE job[l].step = "plan" /\ Upload(l, "planning", "metadata")
  <2> DEFINE b2 == Uploaded(build[l], "planning", job[l].value)
             j2 == Going(job[l], "metadata")
  <2>1. /\ build' = [build EXCEPT ![l] = b2] /\ host' = [host EXCEPT ![l] = host[l]]
        /\ job' = [job EXCEPT ![l] = j2]
        /\ slot' = slot /\ lock' = lock /\ faults' \in 0 .. MaxFaults
    BY <1>3, Same DEF Upload, Goto, Uploaded, Going, shared, IInv, Typed
  <2>2. Sound(l, b2, host[l], j2)
    BY <1>3, Same, UploadPlanKeeps DEF Upload
  <2>3. j2.step = job[l].step /\ j2.pc = "metadata"
    BY DEF Going, IInv, Typed, JobStates
  <2> HIDE DEF b2, j2
  <2> QED
    BY <2>1, <2>2, <2>3, MoveStep DEF Holding
<1>4. CASE job[l].step = "plan" /\ PublishDigest(l, "planning")
  <2> DEFINE b2 == NamedIn(build[l], "planning", job[l].value)
  <2>1. Exit(l, b2, 0) /\ job[l].pc = "metadata" /\ host' = host /\ faults' = faults
    BY <1>4 DEF PublishDigest, NamedIn
  <2>2. Sound(l, Left(b2, job[l].step, 0), host[l], Idle)
    BY <1>4, <2>1, Same, PublishPlanKeeps
  <2> HIDE DEF b2
  <2> QED
    BY <2>1, <2>2, Same, ExitStep
<1> QED
  BY <1>1, <1>2, <1>3, <1>4 DEF Plan

\* A planning result that a later step admits is the published plan.
LEMMA Admitted ==
  ASSUME IInv, NEW l \in Lanes, PlanningResult(l) # None
  PROVE  /\ PlanningResult(l) = Published(build[l]) /\ Published(build[l]) # None
         /\ Published(build[l]) \in Results /\ Published(build[l]).kind \in {"plan", "compliance"}
<1>1. PlanningResult(l) = Published(build[l])
  BY DEF PlanningResult, Published
<1>2. Published(build[l]) \in Plans
  BY Same DEF Sound, LaneInv, ChannelsTyped, Published
<1> QED
  BY <1>1, <1>2 DEF Plans, Results

\* A promotion job takes the published plan.
LEMMA MintedStep ==
  ASSUME IInv, NEW l \in Lanes, At(l, "promotion", "begun"), Published(build[l]) # None,
         job' = [job EXCEPT ![l].value = Published(build[l]), ![l].pc = "upload"],
         UNCHANGED <<build, host, slot, lock, faults>>
  PROVE  IInv'
<1> DEFINE j2 == Taking(job[l], Published(build[l]), "upload")
<1>1. /\ build' = [build EXCEPT ![l] = build[l]] /\ host' = [host EXCEPT ![l] = host[l]]
      /\ job' = [job EXCEPT ![l] = j2]
      /\ slot' = slot /\ lock' = lock /\ faults' \in 0 .. MaxFaults
  BY Same DEF Taking, IInv, Typed
<1>2. Sound(l, build[l], host[l], j2)
  BY Same, MintKeeps DEF At
<1>3. j2.step = job[l].step /\ (j2.pc \in Holding => job[l].pc \in Holding)
  BY DEF Holding, IInv, Typed, JobStates, Taking
<1> HIDE DEF j2
<1> QED
  BY <1>1, <1>2, <1>3, MoveStep

\* The promotion goes up.
LEMMA UploadPromotionStep ==
  ASSUME IInv, NEW l \in Lanes, job[l].step = "promotion", Upload(l, "promotion", "annotate")
  PROVE  IInv'
<1>1. job[l].value \in Plans /\ job[l].value \in Documents /\ "promotion" \in Channels
  BY Same DEF Upload, Sound, LaneInv, ChannelsTyped, Planned, Published, Plans, JobStates, Channels
<1> DEFINE b2 == Uploaded(build[l], "promotion", job[l].value)
           j2 == Going(job[l], "annotate")
<1>2. /\ build' = [build EXCEPT ![l] = b2] /\ host' = [host EXCEPT ![l] = host[l]] /\ job' = [job EXCEPT ![l] = j2]
      /\ slot' = slot /\ lock' = lock /\ faults' \in 0 .. MaxFaults
  BY <1>1, Same DEF Upload, Goto, Uploaded, Going, shared, IInv, Typed
<1>3. Sound(l, b2, host[l], j2)
  BY <1>1, Same, PromotionChannels, PromotionMoves DEF Upload
<1>4. j2.step = job[l].step /\ (j2.pc \in Holding => job[l].pc \in Holding)
  BY DEF Holding, IInv, Typed, JobStates, Going
<1> HIDE DEF b2, j2
<1> QED
  BY <1>2, <1>3, <1>4, MoveStep

\* The promotion is shown.
LEMMA AnnotateStep ==
  ASSUME IInv, NEW l \in Lanes, Annotate(l)
  PROVE  IInv'
<1> DEFINE b2 == Showing(build[l], job[l].value)
           j2 == Going(job[l], IF l \in Rollouts THEN "bytes" ELSE "metadata")
<1>1. /\ build' = [build EXCEPT ![l] = b2] /\ host' = [host EXCEPT ![l] = host[l]] /\ job' = [job EXCEPT ![l] = j2]
      /\ slot' = slot /\ lock' = lock /\ faults' \in 0 .. MaxFaults
  BY Same DEF Annotate, Goto, Showing, Going, shared, IInv, Typed
<1>2. Sound(l, b2, host[l], j2)
  BY Same, AnnotateKeeps DEF Annotate, At
<1>3. j2.step = job[l].step /\ (j2.pc \in Holding => job[l].pc \in Holding)
  BY DEF Holding, IInv, Typed, JobStates, Going
<1> HIDE DEF b2, j2
<1> QED
  BY <1>1, <1>2, <1>3, MoveStep

\* The digest of a rollout's promotion bytes is published.
LEMMA PublishBytesStep ==
  ASSUME IInv, NEW l \in Lanes, PublishBytes(l)
  PROVE  IInv'
<1>1. job[l].value \in Plans /\ job[l].value \in Documents /\ "promotion bytes" \in Channels
  BY Same DEF PublishBytes, At, Sound, LaneInv, ChannelsTyped, Planned, Published, Plans, JobStates, Channels
<1> DEFINE b2 == NamedIn(build[l], "promotion bytes", job[l].value)
           j2 == Going(job[l], "metadata")
<1>2. /\ build' = [build EXCEPT ![l] = b2] /\ host' = [host EXCEPT ![l] = host[l]] /\ job' = [job EXCEPT ![l] = j2]
      /\ slot' = slot /\ lock' = lock /\ faults' \in 0 .. MaxFaults
  BY <1>1, Same DEF PublishBytes, Goto, NamedIn, Going, shared, IInv, Typed
<1>3. Sound(l, b2, host[l], j2)
  BY <1>1, Same, PromotionChannels, PromotionMoves DEF PublishBytes, At
<1>4. j2.step = job[l].step /\ (j2.pc \in Holding => job[l].pc \in Holding)
  BY DEF Holding, IInv, Typed, JobStates, Going
<1> HIDE DEF b2, j2
<1> QED
  BY <1>2, <1>3, <1>4, MoveStep

\* The steps of promotion_step and rollout_promotion_step.
LEMMA PromoteStep ==
  ASSUME IInv, NEW l \in Lanes, Promote(l)
  PROVE  IInv'
<1>1. CASE Mint(l)
  <2> DEFINE r == PlanningResult(l)
  <2>1. CASE r # None /\ r.kind = "compliance"
    <3>1. Sound(l, Left(build[l], job[l].step, 0), host[l], Idle)
      BY <1>1, Same, ExitKeeps DEF Mint, At
    <3> QED
      BY <1>1, <2>1, <3>1, Same, ExitStep DEF Mint
  <2>2. CASE ~ (r # None /\ r.kind = "compliance") /\ (r = None \/ Promotion(l, r) = None)
    BY <1>1, <2>2, Same, FailStep DEF Mint, At
  <2>3. CASE ~ (r # None /\ r.kind = "compliance") /\ ~ (r = None \/ Promotion(l, r) = None)
    <3>1. Promotion(l, r) = Published(build[l]) /\ Published(build[l]) # None
      BY <2>3, Admitted DEF Promotion
    <3> QED
      BY <1>1, <2>3, <3>1, MintedStep DEF Mint
  <2> QED
    BY <2>1, <2>2, <2>3
<1>2. CASE job[l].step = "promotion" /\ PublishDigest(l, "promotion")
  <2> DEFINE b2 == NamedIn(build[l], "promotion", job[l].value)
  <2>1. Exit(l, b2, 0) /\ job[l].pc = "metadata" /\ host' = host /\ faults' = faults
    BY <1>2 DEF PublishDigest, NamedIn
  <2>2. job[l].value \in Plans /\ job[l].value \in Documents /\ "promotion" \in Channels
    BY <1>2, <2>1, Same DEF Sound, LaneInv, ChannelsTyped, Planned, Published, Plans, JobStates, Channels
  <2>3. Sound(l, b2, host[l], job[l])
    BY <2>2, Same, PromotionChannels
  <2> HIDE DEF b2
  <2>4. Sound(l, Left(b2, job[l].step, 0), host[l], Idle)
    BY <1>2, <2>1, <2>3, ExitKeeps
  <2> QED
    BY <2>1, <2>4, Same, ExitStep
<1> QED
  BY <1>1, <1>2, UploadPromotionStep, AnnotateStep, PublishBytesStep DEF Promote

\* A deploy job takes the published plan or result.
LEMMA AdmittedStep ==
  ASSUME IInv, NEW l \in Lanes, At(l, "deploy", "begun"), Published(build[l]) # None,
         NEW pc, IF Published(build[l]).kind = "plan" THEN pc = "reserve" ELSE pc = "persist" /\ l \in Singles,
         job' = [job EXCEPT ![l].value = Published(build[l]), ![l].pc = pc],
         UNCHANGED <<build, host, slot, lock, faults>>
  PROVE  IInv'
<1> DEFINE j2 == Taking(job[l], Published(build[l]), pc)
<1>1. /\ build' = [build EXCEPT ![l] = build[l]] /\ host' = [host EXCEPT ![l] = host[l]]
      /\ job' = [job EXCEPT ![l] = j2]
      /\ slot' = slot /\ lock' = lock /\ faults' \in 0 .. MaxFaults
  BY Same DEF Taking, IInv, Typed
<1>2. Sound(l, build[l], host[l], j2)
  BY Same, AdmitKeeps DEF At
<1>3. j2.step = job[l].step /\ (j2.pc \in Holding => job[l].pc \in Holding)
  BY DEF Holding, IInv, Typed, JobStates, Taking
<1> HIDE DEF j2
<1> QED
  BY <1>1, <1>2, <1>3, MoveStep

\* A deploy job admits, refuses or passes over a compliant rollout.
LEMMA AdmitStep ==
  ASSUME IInv, NEW l \in Lanes, Admit(l) \/ AdmitRollout(l)
  PROVE  IInv'
<1> DEFINE r == PlanningResult(l)
<1>0. /\ At(l, "deploy", "begun") /\ job[l].step = "deploy" /\ job[l].pc = "begun"
      /\ job[l].pc \in Early /\ job[l].pc # "idle"
  BY DEF Admit, AdmitRollout, At, Early
<1>1. host' = host /\ faults' = faults /\ faults' \in 0 .. MaxFaults
  BY Same DEF Admit, AdmitRollout
<1>2. CASE Refuse(l)
  BY <1>0, <1>1, <1>2, RefuseStep
<1>3. CASE Admit(l) /\ ~ Refuse(l)
  <2>1. r # None /\ l \in Singles
    BY <1>3 DEF Admit
  <2>2. /\ job' = [job EXCEPT ![l].value = r, ![l].pc = IF r.kind = "plan" THEN "reserve" ELSE "persist"]
        /\ UNCHANGED <<build, slot, lock>>
    BY <1>3 DEF Admit
  <2> QED
    BY <1>0, <1>1, <2>1, <2>2, Admitted, AdmittedStep
<1>4. CASE AdmitRollout(l) /\ ~ Refuse(l) /\ r # None /\ r.kind = "compliance"
  <2>1. Exit(l, build[l], 0) /\ l \in Rollouts
    BY <1>4 DEF AdmitRollout
  <2>2. host[l].times = 0
    BY <1>0, Same DEF Sound, LaneInv, Attempted
  <2>3. Sound(l, Left(build[l], job[l].step, 0), host[l], Idle)
    BY <1>0, <2>1, <2>2, Same, ExitKeeps
  <2> QED
    BY <1>1, <2>1, <2>3, Same, ExitStep
<1>5. CASE AdmitRollout(l) /\ ~ Refuse(l) /\ ~ (r # None /\ r.kind = "compliance")
  <2>1. /\ r # None /\ job' = [job EXCEPT ![l].value = r, ![l].pc = "reserve"]
        /\ UNCHANGED <<build, slot, lock>>
    BY <1>5 DEF AdmitRollout
  <2>2. r = Published(build[l]) /\ Published(build[l]) # None /\ Published(build[l]).kind = "plan"
    BY <1>5, <2>1, Admitted
  <2> QED
    BY <1>0, <1>1, <2>1, <2>2, AdmittedStep
<1> QED
  BY <1>2, <1>3, <1>4, <1>5

\* A deploy job takes the device's lock, or is refused.
LEMMA ReserveStep ==
  ASSUME IInv, NEW l \in Lanes, Reserve(l)
  PROVE  IInv'
<1>1. /\ job[l].step = "deploy" /\ job[l].pc = "reserve" /\ job[l].pc \in Early
      /\ host' = host /\ faults' \in 0 .. MaxFaults
  BY Same DEF Reserve, At, Early
<1>2. CASE Refuse(l)
  BY <1>1, <1>2, RefuseStep
<1>3. CASE ~ Refuse(l)
  <2> DEFINE pc == IF l \in Singles THEN "prepare" ELSE "spawn"
             j2 == Going(job[l], pc)
  <2>1. /\ lock = None /\ lock' = l /\ build' = build /\ slot' = slot
        /\ job' = [job EXCEPT ![l] = j2]
    BY <1>3 DEF Reserve, LockFree, Goto, Going
  <2>2. Sound(l, build[l], host[l], j2)
    <3>1. pc \in {"prepare", "spawn"}
      OBVIOUS
    <3> HIDE DEF pc
    <3> QED
      BY <1>1, <3>1, Same, PrepareKeeps
  <2>3. j2.step = "deploy"
    BY <1>1 DEF Going, IInv, Typed, JobStates
  <2> HIDE DEF j2
  <2>4. slot \in Lanes \cup {None} /\ "deploy" \in Protected
    BY DEF IInv, Typed, Protected
  <2> QED
    BY <1>1, <2>1, <2>2, <2>3, <2>4, Same, LaneStep, Distinct
<1> QED
  BY <1>2, <1>3

\* A deploy job has its trust, destination and PRE chronology.
LEMMA PreparedStep ==
  ASSUME IInv, NEW l \in Lanes, job[l].step = "deploy", job[l].pc = "prepare", job' = [job EXCEPT ![l].pc = "spawn"],
         UNCHANGED <<build, host, slot, lock, faults>>
  PROVE  IInv'
<1> DEFINE j2 == Going(job[l], "spawn")
<1>1. /\ build' = [build EXCEPT ![l] = build[l]] /\ host' = [host EXCEPT ![l] = host[l]]
      /\ job' = [job EXCEPT ![l] = j2]
      /\ slot' = slot /\ lock' = lock /\ faults' \in 0 .. MaxFaults
  BY Same DEF Going, IInv, Typed
<1>2. Sound(l, build[l], host[l], j2)
  BY Same, PrepareKeeps
<1>3. j2.step = job[l].step /\ (j2.pc \in Holding => job[l].pc \in Holding)
  BY DEF Holding, IInv, Typed, JobStates, Going
<1> HIDE DEF j2
<1> QED
  BY <1>1, <1>2, <1>3, MoveStep

\* Preparation succeeds or is refused.
LEMMA PrepareStep ==
  ASSUME IInv, NEW l \in Lanes, Prepare(l)
  PROVE  IInv'
<1>1. job[l].step = "deploy" /\ job[l].pc = "prepare" /\ job[l].pc \in Early
  BY DEF Prepare, At, Early
<1>2. CASE Refuse(l) /\ Fault /\ UNCHANGED host
  BY <1>1, <1>2, Same, RefuseStep
<1>3. CASE Goto(l, "spawn") /\ UNCHANGED <<build, host, shared>>
  BY <1>1, <1>3, PreparedStep DEF Goto, shared
<1> QED
  BY <1>2, <1>3 DEF Prepare

\* The executor starts.
LEMMA ChildStep ==
  ASSUME IInv, NEW l \in Lanes, At(l, "deploy", "spawn"), Goto(l, "child"), UNCHANGED <<build, shared>>,
         host' = [host EXCEPT ![l].executor = "running", ![l].report = None,
                              ![l].times = @ + 1, ![l].executed = job[l].value]
  PROVE  IInv'
<1> DEFINE h2 == Doing(host[l], job[l].value)
           j2 == Going(job[l], "child")
<1>1. /\ build' = [build EXCEPT ![l] = build[l]] /\ host' = [host EXCEPT ![l] = h2] /\ job' = [job EXCEPT ![l] = j2]
      /\ slot' = slot /\ lock' = lock /\ faults' \in 0 .. MaxFaults
  BY Same DEF Goto, shared, Doing, Going, IInv, Typed
<1>2. Sound(l, build[l], h2, j2)
  BY Same, SpawnKeeps DEF At
<1>3. j2.step = job[l].step /\ (j2.pc \in Holding => job[l].pc \in Holding)
  BY DEF Holding, IInv, Typed, JobStates, Going, At
<1> HIDE DEF h2, j2
<1> QED
  BY <1>1, <1>2, <1>3, MoveStep

\* The call of the executor raises.
LEMMA SpawnRaisesStep ==
  ASSUME IInv, NEW l \in Lanes, At(l, "deploy", "spawn"), l \in Singles, Fault,
         job' = [job EXCEPT ![l].pc = "post", ![l].code = 3], UNCHANGED <<build, host, slot, lock>>
  PROVE  IInv'
<1> DEFINE j2 == Coded(job[l], "post", 3)
<1>1. /\ build' = [build EXCEPT ![l] = build[l]] /\ host' = [host EXCEPT ![l] = host[l]]
      /\ job' = [job EXCEPT ![l] = j2]
      /\ slot' = slot /\ lock' = lock /\ faults' \in 0 .. MaxFaults
  BY Same DEF Coded, IInv, Typed
<1>2. Sound(l, build[l], host[l], j2)
  BY Same, SpawnRaisesKeeps DEF At
<1>3. j2.step = job[l].step /\ (j2.pc \in Holding => job[l].pc \in Holding)
  BY DEF Holding, IInv, Typed, JobStates, Coded
<1> HIDE DEF j2
<1> QED
  BY <1>1, <1>2, <1>3, MoveStep

\* A deploy job has the executor's exit status.
LEMMA AwaitStep ==
  ASSUME IInv, NEW l \in Lanes, Await(l)
  PROVE  IInv'
<1> DEFINE j2 == Coded(job[l], "post", ExitStatus(host[l].report))
<1>1. /\ build' = [build EXCEPT ![l] = build[l]] /\ host' = [host EXCEPT ![l] = host[l]]
      /\ job' = [job EXCEPT ![l] = j2]
      /\ slot' = slot /\ lock' = lock /\ faults' \in 0 .. MaxFaults
  BY Same DEF Await, Coded, shared, IInv, Typed
<1>2. Sound(l, build[l], host[l], j2)
  BY Same, AwaitKeeps DEF Await, At
<1>3. j2.step = job[l].step /\ (j2.pc \in Holding => job[l].pc \in Holding)
  BY DEF Holding, IInv, Typed, JobStates, Coded
<1> HIDE DEF j2
<1> QED
  BY <1>1, <1>2, <1>3, MoveStep

\* A deploy job takes its POST observation.
LEMMA PostStep ==
  ASSUME IInv, NEW l \in Lanes, Post(l)
  PROVE  IInv'
<1>1. PICK post \in Ends :
           job' = [job EXCEPT ![l].post = post,
                              ![l].failed = post # "SUCCEEDED" \/ host[l].report = None,
                              ![l].pc = IF host[l].report = None THEN "annotate" ELSE "record"]
  BY DEF Post, Ends
<1> DEFINE j2 == Posted(job[l], post, host[l].report = None)
<1>2. job' = [job EXCEPT ![l] = j2]
  BY <1>1, Same DEF Posted, IInv, Typed
<1>3. /\ build' = [build EXCEPT ![l] = build[l]] /\ host' = [host EXCEPT ![l] = host[l]]
      /\ job' = [job EXCEPT ![l] = j2]
      /\ slot' = slot /\ lock' = lock /\ faults' \in 0 .. MaxFaults
  BY <1>1, <1>2, Same DEF Post, shared, IInv, Typed
<1>4. Sound(l, build[l], host[l], j2)
  BY <1>1, <1>2, Same, PostKeeps DEF Post, At
<1>5. j2.step = job[l].step /\ (j2.pc \in Holding => job[l].pc \in Holding)
  BY DEF Holding, IInv, Typed, JobStates, Posted
<1> HIDE DEF j2
<1> QED
  BY <1>3, <1>4, <1>5, MoveStep

\* The executor ends, whether or not its job is still there.
LEMMA ExecutorEndsStep ==
  ASSUME IInv, NEW l \in Lanes, ExecutorEnds(l)
  PROVE  IInv'
<1>1. PICK report \in Records \cup {None} :
           /\ host' = [host EXCEPT ![l].executor = "ended", ![l].report = report]
           /\ report # None => report.outcome # "COMPLIANT" /\ report.result = host[l].executed
  <2>0. host[l].times = 1
    BY Same DEF ExecutorEnds, Sound, LaneInv, Attempted
  <2>1. host[l].executed \in Results
    <3>1. host[l].executed = Published(build[l]) /\ host[l].executed # None
      BY <2>0, Same DEF Sound, LaneInv, Planned
    <3>2. Published(build[l]) \in Plans
      BY Same DEF Sound, LaneInv, ChannelsTyped, Published
    <3> QED
      BY <3>1, <3>2 DEF Plans
  <2>2. PICK o \in Outcomes \cup {None} :
           host' = [host EXCEPT ![l].executor = "ended",
                      ![l].report = IF o = None THEN None ELSE [result |-> host[l].executed, outcome |-> o]]
    BY DEF ExecutorEnds
  <2> DEFINE report == IF o = None THEN None ELSE [result |-> host[l].executed, outcome |-> o]
  <2>3. report \in Records \cup {None}
    BY <2>1 DEF Records
  <2>4. report # None => report.outcome # "COMPLIANT" /\ report.result = host[l].executed
    BY DEF Outcomes
  <2> QED
    BY <2>2, <2>3, <2>4
<1> DEFINE h2 == Reporting(host[l], report)
<1>2. /\ build' = [build EXCEPT ![l] = build[l]] /\ host' = [host EXCEPT ![l] = h2]
      /\ job' = [job EXCEPT ![l] = job[l]]
      /\ slot' = slot /\ lock' = lock /\ faults' \in 0 .. MaxFaults
  BY <1>1, Same DEF ExecutorEnds, Reporting, shared, IInv, Typed
<1>3. Sound(l, build[l], h2, job[l])
  BY <1>1, Same, ReportKeeps DEF ExecutorEnds
<1>4. job[l].step = job[l].step /\ (job[l].pc \in Holding => job[l].pc \in Holding)
  BY DEF Holding, IInv, Typed, JobStates
<1> HIDE DEF h2
<1> QED
  BY <1>2, <1>3, <1>4, MoveStep

\* execute_rollout returns or raises.
LEMMA RolloutEndsStep ==
  ASSUME IInv, NEW l \in Lanes, RolloutEnds(l)
  PROVE  IInv'
<1>1. /\ job[l].step = "deploy" /\ job[l].pc = "child" /\ l \in Rollouts /\ host[l].executor = "ended"
      /\ faults' \in 0 .. MaxFaults
  BY Same DEF RolloutEnds, At
<1>2. CASE host[l].report = None
  BY <1>1, <1>2, FailStep DEF RolloutEnds
<1>3. CASE host[l].report # None
  <2> DEFINE code == IF host[l].report.outcome = "SUCCEEDED" THEN 0 ELSE 3
             h2 == Recording(host[l], host[l].report)
             j2 == Coded(job[l], "receipt", code)
  <2>1. /\ host' = [host EXCEPT ![l] = h2] /\ job' = [job EXCEPT ![l] = j2]
        /\ build' = build /\ slot' = slot /\ lock' = IF lock = l THEN None ELSE lock
    BY <1>3 DEF RolloutEnds, Recording, Coded, IInv, Typed
  <2>2. Sound(l, build[l], h2, j2)
    BY <1>1, <1>3, Same, RolloutRecordKeeps
  <2>3. j2.step = "deploy" /\ j2.pc = "receipt"
    BY <1>1 DEF Coded, IInv, Typed, JobStates
  <2> HIDE DEF h2, j2
  <2>4. /\ slot' \in Lanes \cup {None} /\ lock' \in Lanes \cup {None} /\ lock' # l /\ "deploy" \in Protected
        /\ \A k \in Lanes \ {l} : (slot' = k => slot = k) /\ (lock' = k <=> lock = k)
    BY <2>1, Distinct DEF IInv, Typed, Protected
  <2> QED
    BY <1>1, <2>1, <2>2, <2>3, <2>4, Same, LaneStep DEF Holding
<1> QED
  BY <1>2, <1>3

\* A channel fails.
LEMMA FailingStep ==
  ASSUME IInv, NEW l \in Lanes, NEW pc, job[l].step = "deploy",
         job[l].pc \in {"record", "persist", "receipt", "name"} \cup Telling,
         IF job[l].pc = "record" THEN pc = "persist" ELSE pc = "annotate",
         job' = [job EXCEPT ![l].pc = pc, ![l].failed = TRUE], Fault, UNCHANGED <<build, host, slot, lock>>
  PROVE  IInv'
<1> DEFINE j2 == Failing(job[l], pc)
<1>1. /\ build' = [build EXCEPT ![l] = build[l]] /\ host' = [host EXCEPT ![l] = host[l]]
      /\ job' = [job EXCEPT ![l] = j2]
      /\ slot' = slot /\ lock' = lock /\ faults' \in 0 .. MaxFaults
  BY Same DEF Failing, IInv, Typed
<1>2. Sound(l, build[l], host[l], j2)
  BY Same, FailingKeeps
<1>3. j2.step = job[l].step /\ (j2.pc \in Holding => job[l].pc \in Holding)
  BY DEF Holding, IInv, Typed, JobStates, Failing
<1> HIDE DEF j2
<1> QED
  BY <1>1, <1>2, <1>3, MoveStep

\* The eight things a deploy job says after its executor, one by one.
\* First the record goes up.
LEMMA RecordUploaded ==
  ASSUME IInv, NEW l \in Lanes, job[l].step = "deploy", job[l].pc = "record",
         Sent(l, "record", host[l].report), Goto(l, "persist"), UNCHANGED shared
  PROVE  IInv'
<1> DEFINE b2 == Uploaded(build[l], "record", host[l].report)
           j2 == Going(job[l], "persist")
<1>1. /\ build' = [build EXCEPT ![l] = b2] /\ host' = [host EXCEPT ![l] = host[l]] /\ job' = [job EXCEPT ![l] = j2]
      /\ slot' = slot /\ lock' = lock /\ faults' \in 0 .. MaxFaults
  BY Same DEF Goto, Going, shared, Sent, Uploaded, IInv, Typed
<1>2. Sound(l, b2, host[l], j2)
  BY Same, UploadRecordKeeps
<1>3. j2.step = job[l].step /\ (j2.pc \in Holding => job[l].pc \in Holding)
  BY DEF Holding, IInv, Typed, JobStates, Going
<1> HIDE DEF b2, j2
<1> QED
  BY <1>1, <1>2, <1>3, MoveStep

\* The store has taken the record.
LEMMA RecordPersisted ==
  ASSUME IInv, NEW l \in Lanes, job[l].step = "deploy", job[l].pc = "persist",
         host' = [host EXCEPT ![l].record = Envelope(l)], UNCHANGED build,
         Goto(l, "receipt"), UNCHANGED shared
  PROVE  IInv'
<1>1. Envelope(l) \in Records
  <2>1. Published(build[l]) \in Plans /\ job[l].value = Published(build[l]) /\ job[l].value # None
    BY Same DEF Sound, LaneInv, ChannelsTyped, Planned, Published
  <2>2. job[l].value \in Results /\ job[l].value.kind \in {"plan", "compliance"}
    BY <2>1 DEF Plans, Results
  <2>3. job[l].value.kind # "compliance" => host[l].report \in Records
    BY <2>2, Same DEF Sound, LaneInv, Knows, Hosts
  <2> QED
    BY <2>2, <2>3 DEF Envelope, Records
<1> DEFINE h2 == Recording(host[l], Envelope(l))
           j2 == Going(job[l], "receipt")
<1>2. /\ build' = [build EXCEPT ![l] = build[l]] /\ host' = [host EXCEPT ![l] = h2] /\ job' = [job EXCEPT ![l] = j2]
      /\ slot' = slot /\ lock' = lock /\ faults' \in 0 .. MaxFaults
  BY <1>1, Same DEF Goto, Going, shared, Recording, IInv, Typed
<1>3. Sound(l, build[l], h2, j2)
  BY <1>1, Same, PersistKeeps DEF Envelope
<1>4. j2.step = job[l].step /\ (j2.pc \in Holding => job[l].pc \in Holding)
  BY DEF Holding, IInv, Typed, JobStates, Going
<1> HIDE DEF h2, j2
<1> QED
  BY <1>2, <1>3, <1>4, MoveStep

\* The receipt has gone up.
LEMMA ReceiptUploaded ==
  ASSUME IInv, NEW l \in Lanes, job[l].step = "deploy", job[l].pc = "receipt",
         Sent(l, "durable", host[l].record), Goto(l, "name"), UNCHANGED shared
  PROVE  IInv'
<1> DEFINE b2 == Uploaded(build[l], "durable", host[l].record)
           j2 == Going(job[l], "name")
<1>1. /\ build' = [build EXCEPT ![l] = b2] /\ host' = [host EXCEPT ![l] = host[l]] /\ job' = [job EXCEPT ![l] = j2]
      /\ slot' = slot /\ lock' = lock /\ faults' \in 0 .. MaxFaults
  BY Same DEF Goto, Going, shared, Sent, Uploaded, IInv, Typed
<1>2. Sound(l, b2, host[l], j2)
  BY Same, UploadReceiptKeeps
<1>3. j2.step = job[l].step /\ (j2.pc \in Holding => job[l].pc \in Holding)
  BY DEF Holding, IInv, Typed, JobStates, Going
<1> HIDE DEF b2, j2
<1> QED
  BY <1>1, <1>2, <1>3, MoveStep

\* The receipt has been named.
LEMMA ReceiptNamed ==
  ASSUME IInv, NEW l \in Lanes, job[l].step = "deploy", job[l].pc = "name",
         NEW pc, pc = IF l \in Singles /\ job[l].value.kind = "plan" THEN "chronology" ELSE "annotate",
         Named(l, "durable", host[l].record), Goto(l, pc), UNCHANGED shared
  PROVE  IInv'
<1> DEFINE b2 == NamedIn(build[l], "durable", host[l].record)
           j2 == Going(job[l], pc)
<1>1. /\ build' = [build EXCEPT ![l] = b2] /\ host' = [host EXCEPT ![l] = host[l]] /\ job' = [job EXCEPT ![l] = j2]
      /\ slot' = slot /\ lock' = lock /\ faults' \in 0 .. MaxFaults
  BY Same DEF Goto, Going, shared, Named, NamedIn, IInv, Typed
<1>2. Sound(l, b2, host[l], j2)
  BY Same, NameReceiptKeeps
<1>3. j2.step = job[l].step /\ (j2.pc \in Holding => job[l].pc \in Holding)
  BY DEF Holding, IInv, Typed, JobStates, Going
<1> HIDE DEF b2, j2
<1> QED
  BY <1>1, <1>2, <1>3, MoveStep

\* There is no POST to tell of.
LEMMA ChronologySkipped ==
  ASSUME IInv, NEW l \in Lanes, job[l].step = "deploy", job[l].pc = "chronology",
         job[l].post = None, Goto(l, "annotate"), UNCHANGED <<build, host, shared>>
  PROVE  IInv'
<1> DEFINE j2 == Going(job[l], "annotate")
<1>1. /\ build' = [build EXCEPT ![l] = build[l]] /\ host' = [host EXCEPT ![l] = host[l]]
      /\ job' = [job EXCEPT ![l] = j2]
      /\ slot' = slot /\ lock' = lock /\ faults' \in 0 .. MaxFaults
  BY Same DEF Goto, Going, shared, IInv, Typed
<1>2. Sound(l, build[l], host[l], j2)
  BY Same, NoPostKeeps
<1>3. j2.step = job[l].step /\ (j2.pc \in Holding => job[l].pc \in Holding)
  BY DEF Holding, IInv, Typed, JobStates, Going
<1> HIDE DEF j2
<1> QED
  BY <1>1, <1>2, <1>3, MoveStep

\* The chronology is saved.
LEMMA ChronologySaved ==
  ASSUME IInv, NEW l \in Lanes, job[l].step = "deploy", job[l].pc = "chronology",
         host' = [host EXCEPT ![l].chronology = job[l].post], UNCHANGED build,
         Goto(l, "chronology file"), UNCHANGED shared
  PROVE  IInv'
<1> DEFINE h2 == Chronicling(host[l], job[l].post)
           j2 == Going(job[l], "chronology file")
<1>1. /\ build' = [build EXCEPT ![l] = build[l]] /\ host' = [host EXCEPT ![l] = h2] /\ job' = [job EXCEPT ![l] = j2]
      /\ slot' = slot /\ lock' = lock /\ faults' \in 0 .. MaxFaults
  BY Same DEF Goto, Going, shared, Chronicling, IInv, Typed
<1>2. Sound(l, build[l], h2, j2)
  BY Same, ChronologyKeeps
<1>3. j2.step = job[l].step /\ (j2.pc \in Holding => job[l].pc \in Holding)
  BY DEF Holding, IInv, Typed, JobStates, Going
<1> HIDE DEF h2, j2
<1> QED
  BY <1>1, <1>2, <1>3, MoveStep

\* The chronology has gone up.
LEMMA ChronologyUploaded ==
  ASSUME IInv, NEW l \in Lanes, job[l].step = "deploy", job[l].pc = "chronology file",
         Sent(l, "chronology", job[l].post), Goto(l, "chronology name"), UNCHANGED shared
  PROVE  IInv'
<1> DEFINE b2 == Uploaded(build[l], "chronology", job[l].post)
           j2 == Going(job[l], "chronology name")
<1>1. /\ build' = [build EXCEPT ![l] = b2] /\ host' = [host EXCEPT ![l] = host[l]] /\ job' = [job EXCEPT ![l] = j2]
      /\ slot' = slot /\ lock' = lock /\ faults' \in 0 .. MaxFaults
  BY Same DEF Goto, Going, shared, Sent, Uploaded, IInv, Typed
<1>2. Sound(l, b2, host[l], j2)
  BY Same, UploadChronologyKeeps
<1>3. j2.step = job[l].step /\ (j2.pc \in Holding => job[l].pc \in Holding)
  BY DEF Holding, IInv, Typed, JobStates, Going
<1> HIDE DEF b2, j2
<1> QED
  BY <1>1, <1>2, <1>3, MoveStep

\* The chronology has been named.
LEMMA ChronologyNamed ==
  ASSUME IInv, NEW l \in Lanes, job[l].step = "deploy", job[l].pc = "chronology name",
         Named(l, "chronology", job[l].post), Goto(l, "annotate"), UNCHANGED shared
  PROVE  IInv'
<1> DEFINE b2 == NamedIn(build[l], "chronology", job[l].post)
           j2 == Going(job[l], "annotate")
<1>1. /\ build' = [build EXCEPT ![l] = b2] /\ host' = [host EXCEPT ![l] = host[l]] /\ job' = [job EXCEPT ![l] = j2]
      /\ slot' = slot /\ lock' = lock /\ faults' \in 0 .. MaxFaults
  BY Same DEF Goto, Going, shared, Named, NamedIn, IInv, Typed
<1>2. Sound(l, b2, host[l], j2)
  BY Same, NameChronologyKeeps
<1>3. j2.step = job[l].step /\ (j2.pc \in Holding => job[l].pc \in Holding)
  BY DEF Holding, IInv, Typed, JobStates, Going
<1> HIDE DEF b2, j2
<1> QED
  BY <1>1, <1>2, <1>3, MoveStep

\* An evidence job takes the record.
LEMMA RecordReadStep ==
  ASSUME IInv, NEW l \in Lanes, At(l, "evidence", "begun"), NEW record \in Records,
         record.outcome = "COMPLIANT" \/ record = build[l].artifact["record"],
         job' = [job EXCEPT ![l].value = record, ![l].pc = "receipts"], UNCHANGED <<build, host, slot, lock, faults>>
  PROVE  IInv'
<1> DEFINE j2 == Taking(job[l], record, "receipts")
<1>1. /\ build' = [build EXCEPT ![l] = build[l]] /\ host' = [host EXCEPT ![l] = host[l]]
      /\ job' = [job EXCEPT ![l] = j2]
      /\ slot' = slot /\ lock' = lock /\ faults' \in 0 .. MaxFaults
  BY Same DEF Taking, IInv, Typed
<1>2. Sound(l, build[l], host[l], j2)
  BY Same, ReadRecordKeeps DEF At
<1>3. j2.step = job[l].step /\ (j2.pc \in Holding => job[l].pc \in Holding)
  BY DEF Holding, IInv, Typed, JobStates, Taking
<1> HIDE DEF j2
<1> QED
  BY <1>1, <1>2, <1>3, MoveStep

\* The channels of a deploy job, each of which may fail.
LEMMA EvidenceChannelsStep ==
  ASSUME IInv, NEW l \in Lanes, UploadRecord(l) \/ PersistRecord(l) \/ PublishReceipt(l) \/ PublishChronology(l)
  PROVE  IInv'
<1>1. CASE UploadRecord(l)
  BY <1>1, RecordUploaded, FailingStep DEF UploadRecord, Evidence, At
<1>2. CASE PersistRecord(l)
  BY <1>2, RecordPersisted, FailingStep DEF PersistRecord, Evidence, At
<1>3. CASE PublishReceipt(l)
  <2>1. CASE Evidence(l, "receipt", "name", "annotate", Sent(l, "durable", host[l].record))
    BY <2>1, ReceiptUploaded, FailingStep DEF Evidence, At
  <2>2. CASE Evidence(l, "name", IF l \in Singles /\ job[l].value.kind = "plan" THEN "chronology" ELSE "annotate",
                      "annotate", Named(l, "durable", host[l].record))
    BY <2>2, ReceiptNamed, FailingStep DEF Evidence, At
  <2> QED
    BY <1>3, <2>1, <2>2 DEF PublishReceipt
<1>4. CASE PublishChronology(l)
  <2>1. CASE At(l, "deploy", "chronology") /\ job[l].post = None
             /\ Goto(l, "annotate") /\ UNCHANGED <<build, host, shared>>
    BY <2>1, ChronologySkipped DEF At
  <2>2. CASE Evidence(l, "chronology", "chronology file", "annotate",
                      host' = [host EXCEPT ![l].chronology = job[l].post] /\ UNCHANGED build)
    BY <2>2, ChronologySaved, FailingStep DEF Evidence, At, Telling
  <2>3. CASE Evidence(l, "chronology file", "chronology name", "annotate", Sent(l, "chronology", job[l].post))
    BY <2>3, ChronologyUploaded, FailingStep DEF Evidence, At, Telling
  <2>4. CASE Evidence(l, "chronology name", "annotate", "annotate", Named(l, "chronology", job[l].post))
    BY <2>4, ChronologyNamed, FailingStep DEF Evidence, At, Telling
  <2> QED
    BY <1>4, <2>1, <2>2, <2>3, <2>4 DEF PublishChronology
<1> QED
  BY <1>1, <1>2, <1>3, <1>4

\* A deploy job ends with its exit status.
LEMMA EndDeployStep ==
  ASSUME IInv, NEW l \in Lanes, EndDeploy(l)
  PROVE  IInv'
<1>1. job[l].step = "deploy" /\ job[l].pc = "annotate" /\ host' = host /\ job[l].code \in {0, 2, 3}
  BY Same DEF EndDeploy, At, IInv, Typed, JobStates
<1>2. CASE Exit(l, build[l], DeployStatus(job[l])) /\ UNCHANGED faults
  <2>1. CASE DeployStatus(job[l]) = 0
    <3>1. Complete(l, build[l], host[l])
      <4>1. job[l].code = 0 /\ ~ job[l].failed
        BY <1>1, <2>1 DEF DeployStatus
      <4> QED
        BY <1>1, <4>1, Same DEF Sound, LaneInv, Knows
    <3>2. Sound(l, Left(build[l], job[l].step, 0), host[l], Idle)
      BY <1>1, <3>1, Same, ExitKeeps
    <3> QED
      BY <1>1, <1>2, <2>1, <3>2, Same, ExitStep
  <2>2. CASE DeployStatus(job[l]) # 0
    <3>1. DeployStatus(job[l]) \in {2, 3}
      BY <1>1, <2>2 DEF DeployStatus
    <3> QED
      BY <1>1, <1>2, <3>1, Same, FailStep
  <2> QED
    BY <2>1, <2>2
<1>3. CASE Fault /\ Exit(l, build[l], DeployStatus([job[l] EXCEPT !.failed = TRUE]))
  <2>1. DeployStatus([job[l] EXCEPT !.failed = TRUE]) \in {2, 3}
    BY <1>1 DEF DeployStatus, IInv, Typed, JobStates
  <2> QED
    BY <1>1, <1>3, <2>1, Same, FailStep
<1> QED
  BY <1>2, <1>3 DEF EndDeploy

\* The steps of _single_deploy and rollout_deploy_step.
LEMMA DeployStep ==
  ASSUME IInv, NEW l \in Lanes, Deploy(l)
  PROVE  IInv'
<1>1. CASE Spawn(l)
  BY <1>1, ChildStep, SpawnRaisesStep DEF Spawn
<1> QED
  BY <1>1, AdmitStep, ReserveStep, PrepareStep, AwaitStep, PostStep, RolloutEndsStep, EvidenceChannelsStep,
     EndDeployStep DEF Deploy

\* The steps of evidence_step.
LEMMA CollectEvidenceStep ==
  ASSUME IInv, NEW l \in Lanes, CollectEvidence(l)
  PROVE  IInv'
<1>1. CASE ReadRecord(l)
  <2> DEFINE r == PlanningResult(l)
             record == IF r # None /\ r.kind = "compliance"
                       THEN [result |-> r, outcome |-> "COMPLIANT"] ELSE build[l].artifact["record"]
  <2>1. At(l, "evidence", "begun") /\ job[l].pc # "idle" /\ host' = host /\ faults' = faults
    BY <1>1 DEF ReadRecord, At
  <2>2. CASE Exit(l, build[l], 2)
    BY <2>1, <2>2, Same, FailStep
  <2>3. CASE ~ Exit(l, build[l], 2)
    <3>1. /\ r # None /\ record # None
          /\ job' = [job EXCEPT ![l].value = record, ![l].pc = "receipts"]
          /\ UNCHANGED <<build, slot, lock>>
      BY <1>1, <2>3 DEF ReadRecord
    <3>2. build[l].artifact["record"] \in Records \cup {None}
      BY Same DEF Sound, LaneInv, ChannelsTyped
    <3>3. record \in Records /\ (record.outcome = "COMPLIANT" \/ record = build[l].artifact["record"])
      <4>1. CASE r # None /\ r.kind = "compliance"
        BY <4>1, Admitted DEF Records
      <4>2. CASE ~ (r # None /\ r.kind = "compliance")
        BY <3>1, <3>2, <4>2
      <4> QED
        BY <4>1, <4>2
    <3> HIDE DEF record
    <3> QED
      BY <2>1, <3>1, <3>3, RecordReadStep
  <2> QED
    BY <2>2, <2>3
<1>2. CASE ReadReceipts(l)
  <2> DEFINE good == /\ Established(l, job[l].value)
                     /\ job[l].value.outcome # "COMPLIANT" => ChronologyEstablished(l)
  <2>1. /\ job[l].step = "evidence" /\ job[l].pc = "receipts" /\ job[l].pc # "idle" /\ host' = host
        /\ faults' = faults /\ Exit(l, build[l], IF good THEN 0 ELSE 3)
    BY <1>2 DEF ReadReceipts, At
  <2>2. CASE good
    <3>1. job[l].value \in Records
      BY <2>1, Same DEF Sound, LaneInv, Passed
    <3>2. job[l].value = host[l].record /\ host[l].record # None
      BY <2>2, <3>1, Same, Distinct DEF Established, Sound, LaneInv, Recorded
    <3>3. host[l].record.outcome # "COMPLIANT" =>
             build[l].artifact["record"] = host[l].record /\ host[l].chronology = "SUCCEEDED"
      <4>1. "SUCCEEDED" # None
        BY Distinct DEF Overall
      <4> QED
        BY <2>1, <2>2, <3>2, <4>1, Same DEF ChronologyEstablished, Sound, LaneInv, Recorded, Passed
    <3>4. Sound(l, Left(build[l], job[l].step, 0), host[l], Idle)
      BY <2>1, <3>2, <3>3, Same, ExitKeeps
    <3> QED
      BY <2>1, <2>2, <3>4, Same, ExitStep
  <2>3. CASE ~ good
    BY <2>1, <2>3, Same, FailStep
  <2> QED
    BY <2>2, <2>3
<1> QED
  BY <1>1, <1>2 DEF CollectEvidence

-----------------------------------------------------------------------------
(* The theorems. *)

\* The invariant holds of a new build.
LEMMA InitEstablishes ==
  Init => IInv
<1> SUFFICES ASSUME Init PROVE IInv
  OBVIOUS
<1>1. NewHost \in Hosts /\ Idle \in JobStates
  BY DEF NewHost, Hosts, Ends, Plans, Idle, JobStates, AllPlaces, Documents
<1>2. \A b \in {[NewBuild EXCEPT !.receipts = @ \ {p}] : p \in Prerequisites \cup {None}} :
         /\ b \in Builds /\ b.artifact = NoDocuments /\ b.meta = NoDocuments /\ b.shown = None /\ b.approved = None
         /\ b.ended = {} /\ b.passed = {} /\ ~ b.noWrite
  <2>1. NoDocuments \in [Channels -> Documents]
    BY DEF NoDocuments, Documents
  <2> QED
    BY <2>1 DEF NewBuild, Builds, Plans
<1>3. \A l \in Lanes : build[l] \in {[NewBuild EXCEPT !.receipts = @ \ {p}] : p \in Prerequisites \cup {None}}
                       /\ host[l] = NewHost /\ job[l] = Idle
  BY DEF Init
<1>4. Typed
  BY <1>1, <1>2, DeliveryAssumption DEF Init, Typed
<1>5. Owned
  BY <1>3, Distinct DEF Init, Owned, Idle, Holding
<1>6. ASSUME NEW l \in Lanes
      PROVE  LaneInv(l, build[l], host[l], job[l])
  <2> DEFINE b == build[l]
  <2>1. /\ b \in Builds /\ b.artifact = NoDocuments /\ b.meta = NoDocuments /\ b.shown = None /\ b.approved = None
        /\ b.ended = {} /\ b.passed = {} /\ ~ b.noWrite
    BY <1>2, <1>3
  <2>2. \A c \in Channels : b.artifact[c] = None /\ b.meta[c] = None
    BY <2>1 DEF NoDocuments
  <2>3. /\ host[l].directories = {} /\ host[l].executor = "idle" /\ host[l].times = 0 /\ host[l].report = None
        /\ host[l].record = None /\ host[l].chronology = None
    BY <1>3 DEF NewHost
  <2>4. job[l] = Idle /\ job[l].step = None /\ job[l].pc = "idle" /\ None \notin Steps
    <3>1. Idle.step = None /\ Idle.pc = "idle"
      BY DEF Idle
    <3> QED
      BY <1>3, <3>1, Distinct
  <2> HIDE DEF b
  <2>5. ChannelsTyped(b) /\ Placed(job[l])
    BY <2>2, <2>4 DEF ChannelsTyped, Placed, Channels, Plans, Ends
  <2>6. b.meta["planning"] = None /\ b.artifact["durable"] = None /\ b.artifact["chronology"] = None
    BY <2>2 DEF Channels
  <2>7. job[l].step \notin {"plan", "promotion", "deploy", "evidence"}
    BY <2>4 DEF Steps
  <2>8. Attempted(b, host[l], job[l])
    BY <2>1, <2>3, <2>7 DEF Attempted, Protected
  <2>9. Planned(b, host[l], job[l]) /\ Recorded(b, host[l], job[l])
    BY <2>1, <2>3, <2>6, <2>7 DEF Planned, Published, Recorded
  <2>10. Knows(l, b, host[l], job[l]) /\ Passed(l, b, host[l], job[l])
    BY <2>1, <2>7 DEF Knows, Passed
  <2> QED
    BY <2>5, <2>8, <2>9, <2>10 DEF LaneInv, b
<1> QED
  BY <1>4, <1>5, <1>6 DEF IInv, Sound, Typed

\* Every step keeps the invariant.
LEMMA StepsKeep ==
  IInv /\ [Next]_vars => IInv'
<1> SUFFICES ASSUME IInv, [Next]_vars PROVE IInv'
  OBVIOUS
<1>1. CASE UNCHANGED vars
  BY <1>1 DEF vars, shared, IInv, Typed, Owned
<1>2. ASSUME NEW l \in Lanes, Lane(l)
      PROVE  IInv'
  BY <1>2, BeginStep, PlanStep, PromoteStep, DeployStep, CollectEvidenceStep, RaisesStep DEF Lane
<1> QED
  BY <1>1, <1>2, UnblockStep, ExecutorEndsStep, CrashStep, LostStep DEF Next

\* The inductive invariant: what is known of each lane, and whose the lock is.
THEOREM Invariance == Spec => []IInv
<1> QED
  BY InitEstablishes, StepsKeep, PTL DEF Spec

\* The channels hold documents of their own kind, and the lock and the place in
\* the group belong to a job that runs.
THEOREM TypeCorrect == Spec => []TypeOK
<1>1. IInv => TypeOK
  <2> SUFFICES ASSUME IInv PROVE TypeOK
    OBVIOUS
  <2>1. ASSUME NEW l \in Lanes
        PROVE  /\ build[l].receipts \subseteq Prerequisites
               /\ \A c \in {"planning", "promotion", "promotion bytes"} :
                    {build[l].artifact[c], build[l].meta[c]} \subseteq Results \cup {None}
               /\ \A c \in {"record", "durable"} :
                    {build[l].artifact[c], build[l].meta[c]} \subseteq Records \cup {None}
               /\ {build[l].artifact["chronology"], build[l].meta["chronology"]} \subseteq Overall \cup {None}
               /\ build[l].passed \subseteq build[l].ended
               /\ host[l].executor \in {"idle", "running", "ended"}
               /\ {host[l].report, host[l].record} \subseteq Records \cup {None}
    <3>1. ChannelsTyped(build[l]) /\ build[l].passed \subseteq build[l].ended
      BY Same DEF Sound, LaneInv, Attempted
    <3>2. build[l].receipts \subseteq Prerequisites /\ host[l].executor \in {"idle", "running", "ended"}
          /\ host[l].report \in Records \cup {None} /\ host[l].record \in Records \cup {None}
      BY DEF IInv, Typed, Builds, Hosts
    <3> QED
      BY <3>1, <3>2 DEF ChannelsTyped, Plans, Ends
  <2>2. \A owner \in {slot, lock} \ {None} : job[owner].step \in Protected
    BY DEF IInv, Typed, Owned, Protected
  <2>3. (lock # None => job[lock].step = "deploy") /\ faults \in 0 .. MaxFaults
    BY DEF IInv, Typed, Owned
  <2> QED
    BY <2>1, <2>2, <2>3 DEF TypeOK
<1> QED
  BY <1>1, Invariance, PTL

\* main's create-only attempt directory: a build executes its plan at most once.
THEOREM OneExecution == Spec => []ExecutedOnce
<1>1. IInv => ExecutedOnce
  BY Same DEF ExecutedOnce, Sound, LaneInv, Attempted
<1> QED
  BY <1>1, Invariance, PTL

\* The device's lock keeps the executors of live jobs apart.
THEOREM OneWriter == Spec => []WritersExclusive
<1>1. IInv => WritersExclusive
  <2> SUFFICES ASSUME IInv PROVE WritersExclusive
    OBVIOUS
  <2> DEFINE writers == {l \in Lanes : host[l].executor = "running" /\ job[l].pc = "child"}
  <2>1. writers \subseteq {lock}
    BY DEF IInv, Owned, Holding
  <2>2. IsFiniteSet({lock}) /\ Cardinality({lock}) = 1
    BY FS_Singleton
  <2>3. Cardinality(writers) <= 1
    BY <2>1, <2>2, FS_Subset
  <2> QED
    BY <2>3 DEF WritersExclusive
<1> QED
  BY <1>1, Invariance, PTL

\* "NO WRITE" is true for good.
THEOREM NoWriteTold == Spec => []NoWriteIsTrue
<1>1. IInv => NoWriteIsTrue
  BY Same DEF NoWriteIsTrue, Sound, LaneInv, Attempted
<1> QED
  BY <1>1, Invariance, PTL

\* authorize admits the plan that promotion_step has shown: what a person has
\* before them when they unblock is what the executor is given.
THEOREM ExecutedAsReviewed == Spec => []ReviewedIsExecuted
<1>1. IInv => ReviewedIsExecuted
  BY Same DEF ReviewedIsExecuted, Sound, LaneInv, Planned
<1> QED
  BY <1>1, Invariance, PTL

\* The exit status of deploy_step and evidence_step: a step that passes stands
\* for durable evidence.
THEOREM RecordedWhenPassed == Spec => []PassedIsRecorded
<1>1. IInv => PassedIsRecorded
  <2> SUFFICES ASSUME IInv, NEW l \in Lanes
               PROVE  /\ "deploy" \in build[l].passed =>
                           \/ l \in Rollouts /\ host[l].times = 0
                           \/ /\ host[l].record # None
                              /\ Deserved(l, host[l].record)
                              /\ Established(l, host[l].record)
                              /\ host[l].record.outcome # "COMPLIANT" => host[l].executed = host[l].record.result
                              /\ host[l].record.outcome # "COMPLIANT" /\ l \in Singles =>
                                    host[l].chronology = "SUCCEEDED" /\ ChronologyEstablished(l)
                      /\ "evidence" \in build[l].passed =>
                           /\ host[l].record # None
                           /\ host[l].record.outcome # "COMPLIANT" =>
                                 build[l].artifact["record"] = host[l].record /\ host[l].chronology = "SUCCEEDED"
    BY DEF PassedIsRecorded, Deserved
  <2>1. Passed(l, build[l], host[l], job[l]) /\ Recorded(build[l], host[l], job[l])
    BY Same DEF Sound, LaneInv
  <2>2. Complete(l, build[l], host[l]) =>
           /\ host[l].record # None /\ Deserved(l, host[l].record) /\ Established(l, host[l].record)
           /\ host[l].record.outcome # "COMPLIANT" /\ l \in Singles =>
                 host[l].chronology = "SUCCEEDED" /\ ChronologyEstablished(l)
    BY DEF Complete, IsEstablished, IsTold, Established, ChronologyEstablished
  <2> QED
    BY <2>1, <2>2 DEF Passed, Recorded
<1> QED
  BY <1>1, Invariance, PTL
=============================================================================
