---------------------------- MODULE Sensor_proofs ----------------------------
(***************************************************************************)
(* Proofs about Sensor, for any resolutions, any failing write and any     *)
(* resets of the processor.                                                *)
(***************************************************************************)
EXTENDS Sensor, SequenceTheorems, TLAPS

(* What the tables are made of: a bank is selected, a register gets a      *)
(* value, or the sensor is reset.                                          *)
NewValues == Values \ {"old"}
Steps ==
    {Sel(b) : b \in Banks} \cup {Set(r, v) : r \in Regs, v \in NewValues}
        \cup {Set("COM7", "SRST")}

IsSel(w)   == w.reg = "BANK_SEL"
IsReset(w) == w.val = "SRST"

(* Every register write of s comes after a selection of its bank, and      *)
(* between the two nothing selects or resets.                              *)
Selected(s, i) ==
    \E j \in 1 .. i - 1 :
        /\ s[j] = Sel(BankOf(s[i].reg))
        /\ \A k \in j + 1 .. i - 1 : ~IsSel(s[k]) /\ ~IsReset(s[k])

Banked(s) == \A i \in 1 .. Len(s) : ~IsSel(s[i]) => Selected(s, i)

(* s leaves register r alone; the last that s does to r is to set it to v. *)
Leaves(s, r) == \A i \in 1 .. Len(s) : s[i].reg # r /\ ~IsReset(s[i])

Settles(s, r, v) ==
    \E i \in 1 .. Len(s) :
        /\ s[i] = Set(r, v)
        /\ \A j \in i + 1 .. Len(s) : s[j].reg # r /\ ~IsReset(s[j])
-----------------------------------------------------------------------------
(* The steps of the tables.                                                *)
LEMMA StepsFacts ==
    /\ \A b \in Banks : Sel(b) \in Steps
    /\ \A r \in Regs, v \in NewValues : Set(r, v) \in Steps
    /\ Set("COM7", "SRST") \in Steps
    /\ \A w \in Steps :
         /\ IsSel(w) => w.val \in Banks
         /\ ~IsSel(w) => w.reg \in Regs
         /\ ~IsSel(w) /\ ~IsReset(w) => w.val \in NewValues
         /\ IsReset(w) => w.reg = "COM7"
         /\ w = [reg |-> w.reg, val |-> w.val]
<1>1. \A b \in Banks : Sel(b) \in Steps
  BY DEF Steps
<1>2. \A r \in Regs, v \in NewValues : Set(r, v) \in Steps
  BY DEF Steps
<1>3. Set("COM7", "SRST") \in Steps
  BY DEF Steps
<1>4. "SRST" \notin NewValues /\ "SRST" \notin Banks /\ "BANK_SEL" \notin Regs
      /\ "COM7" \in Regs
  BY SensorAssumption DEF NewValues, Values, Banks, Regs, SensorRegs, DspRegs
<1>5. ASSUME NEW w \in Steps
      PROVE  /\ IsSel(w) => w.val \in Banks
             /\ ~IsSel(w) => w.reg \in Regs
             /\ ~IsSel(w) /\ ~IsReset(w) => w.val \in NewValues
             /\ IsReset(w) => w.reg = "COM7"
             /\ w = [reg |-> w.reg, val |-> w.val]
  <2>1. CASE \E b \in Banks : w = Sel(b)
    BY <1>4, <2>1 DEF Sel, IsSel, IsReset
  <2>2. CASE \E r \in Regs, v \in NewValues : w = Set(r, v)
    BY <1>4, <2>2 DEF Set, IsSel, IsReset
  <2>3. CASE w = Set("COM7", "SRST")
    BY <1>4, <2>3 DEF Set, IsSel, IsReset
  <2> QED
    BY <2>1, <2>2, <2>3 DEF Steps
<1> QED
  BY <1>1, <1>2, <1>3, <1>5

LEMMA SeqStepsWrites ==
    ASSUME NEW s \in Seq(Steps)
    PROVE  \A i \in DOMAIN s : s[i] \in Writes
<1>1. ASSUME NEW w \in Steps PROVE w \in Writes
  <2>1. /\ IsSel(w) => w.val \in Banks
        /\ ~IsSel(w) => w.reg \in Regs
        /\ ~IsSel(w) /\ ~IsReset(w) => w.val \in NewValues
        /\ w = [reg |-> w.reg, val |-> w.val]
    BY StepsFacts
  <2>2. w.reg \in Regs \cup {"BANK_SEL"} /\ w.val \in Values \cup Banks \cup {"SRST"}
    BY <2>1 DEF IsSel, IsReset, NewValues
  <2> QED
    BY <2>1, <2>2 DEF Writes
<1> QED
  BY <1>1, LenProperties, ElementOfSeq

LEMMA TableWindow ==
    ASSUME NEW r \in Res
    PROVE  /\ WindowRegs(r) \in Seq(Steps) /\ Banked(WindowRegs(r))
           /\ \A q \in {"ZMOW", "ZMOH", "ZMHH"} : Settles(WindowRegs(r), q, r)
           /\ \A q \in Regs \ {"ZMOW", "ZMOH", "ZMHH"} : Leaves(WindowRegs(r), q)
<1> DEFINE s == WindowRegs(r)
<1>1. Sel("dsp") \in Steps /\ \A q \in Regs : Set(q, r) \in Steps
  BY StepsFacts, SensorAssumption DEF Banks, NewValues, Values
<1>2. {"ZMOW", "ZMOH", "ZMHH"} \subseteq Regs
  BY DEF Regs, DspRegs
<1>3. /\ s \in Seq(Steps) /\ Len(s) = 4
      /\ s[1] = Sel("dsp") /\ s[2] = Set("ZMOW", r) /\ s[3] = Set("ZMOH", r)
      /\ s[4] = Set("ZMHH", r)
  BY <1>1, <1>2 DEF WindowRegs
<1>4. r # "SRST"
  BY SensorAssumption
<1> HIDE DEF s
<1>5. Banked(s)
  BY <1>3, <1>4 DEF Banked, Selected, IsSel, IsReset, Sel, Set, BankOf, SensorRegs
<1>6. \A q \in {"ZMOW", "ZMOH", "ZMHH"} : Settles(s, q, r)
  BY <1>3, <1>4 DEF Settles, IsReset, Set, Sel
<1>7. \A q \in Regs \ {"ZMOW", "ZMOH", "ZMHH"} : Leaves(s, q)
  BY <1>3, <1>4 DEF Leaves, IsReset, Set, Sel, Regs, SensorRegs, DspRegs
<1> QED
  BY <1>3, <1>5, <1>6, <1>7 DEF s

(* The tables keep to the banks, and what each leaves behind.              *)
LEMMA TableJpeg ==
    /\ JpegRegs \in Seq(Steps) /\ Banked(JpegRegs)
    /\ Settles(JpegRegs, "IMAGE_MODE", "jpeg") /\ Settles(JpegRegs, "RESET", "released")
    /\ \A q \in Regs \ {"RESET", "IMAGE_MODE", "tuning"} : Leaves(JpegRegs, q)
<1> DEFINE s == JpegRegs
<1>1. /\ "jpeg" \in NewValues /\ "held" \in NewValues /\ "released" \in NewValues
      /\ "dsp" \in Banks /\ {"RESET", "IMAGE_MODE", "tuning"} \subseteq Regs
  BY DEF NewValues, Values, Banks, Regs, DspRegs
<1>2. /\ Sel("dsp") \in Steps /\ Set("RESET", "held") \in Steps
      /\ Set("IMAGE_MODE", "jpeg") \in Steps /\ Set("tuning", "jpeg") \in Steps
      /\ Set("RESET", "released") \in Steps
  BY <1>1, StepsFacts
<1>3. /\ s \in Seq(Steps) /\ Len(s) = 5
      /\ s[1] = Sel("dsp") /\ s[2] = Set("RESET", "held")
      /\ s[3] = Set("IMAGE_MODE", "jpeg") /\ s[4] = Set("tuning", "jpeg")
      /\ s[5] = Set("RESET", "released")
  BY <1>2 DEF JpegRegs
<1> HIDE DEF s
<1>4. Banked(s)
  BY <1>3 DEF Banked, Selected, IsSel, IsReset, Sel, Set, BankOf, SensorRegs
<1>5. Settles(s, "IMAGE_MODE", "jpeg") /\ Settles(s, "RESET", "released")
  BY <1>3 DEF Settles, IsReset, Set, Sel
<1>6. \A q \in Regs \ {"RESET", "IMAGE_MODE", "tuning"} : Leaves(s, q)
  BY <1>3 DEF Leaves, IsReset, Set, Sel, Regs, SensorRegs, DspRegs
<1> QED
  BY <1>3, <1>4, <1>5, <1>6 DEF s

LEMMA TableSettings ==
    ASSUME NEW r \in Res
    PROVE  /\ JpegSettings(r) \in Seq(Steps) /\ Banked(JpegSettings(r))
           /\ Settles(JpegSettings(r), "CLKRC", "full")
           /\ Settles(JpegSettings(r), "R_DVP_SP", "div8")
           /\ Settles(JpegSettings(r), "QS", r)
           /\ \A q \in Regs \ {"CLKRC", "R_DVP_SP", "QS"} : Leaves(JpegSettings(r), q)
<1> DEFINE s == JpegSettings(r)
<1>1. /\ "full" \in NewValues /\ "div8" \in NewValues /\ r \in NewValues
      /\ Banks = {"dsp", "sensor"} /\ {"CLKRC", "R_DVP_SP", "QS"} \subseteq Regs
  BY SensorAssumption DEF NewValues, Values, Banks, Regs, DspRegs, SensorRegs
<1>2. /\ Sel("dsp") \in Steps /\ Sel("sensor") \in Steps
      /\ Set("CLKRC", "full") \in Steps /\ Set("R_DVP_SP", "div8") \in Steps
      /\ Set("QS", r) \in Steps
  BY <1>1, StepsFacts
<1>3. /\ s \in Seq(Steps) /\ Len(s) = 6
      /\ s[1] = Sel("sensor") /\ s[2] = Set("CLKRC", "full")
      /\ s[3] = Sel("dsp") /\ s[4] = Set("R_DVP_SP", "div8")
      /\ s[5] = Sel("dsp") /\ s[6] = Set("QS", r)
  BY <1>2 DEF JpegSettings
<1>4. r # "SRST"
  BY SensorAssumption
<1> HIDE DEF s
<1>5. Banked(s)
  BY <1>3, <1>4 DEF Banked, Selected, IsSel, IsReset, Sel, Set, BankOf, SensorRegs
<1>6. Settles(s, "CLKRC", "full") /\ Settles(s, "R_DVP_SP", "div8") /\ Settles(s, "QS", r)
  BY <1>3, <1>4 DEF Settles, IsReset, Set, Sel
<1>7. \A q \in Regs \ {"CLKRC", "R_DVP_SP", "QS"} : Leaves(s, q)
  BY <1>3, <1>4 DEF Leaves, IsReset, Set, Sel, Regs, SensorRegs, DspRegs
<1> QED
  BY <1>3, <1>5, <1>6, <1>7 DEF s

LEMMA TableExposure ==
    /\ ExposureSettings \in Seq(Steps) /\ Banked(ExposureSettings)
    /\ Settles(ExposureSettings, "COM8", "auto") /\ Settles(ExposureSettings, "COM9", "gain32")
    /\ Settles(ExposureSettings, "brightness", "boost")
    /\ Settles(ExposureSettings, "contrast", "boost")
    /\ \A q \in Regs \ {"COM8", "COM9", "brightness", "contrast"} :
         Leaves(ExposureSettings, q)
<1> DEFINE s == ExposureSettings
<1>1. /\ "auto" \in NewValues /\ "gain32" \in NewValues /\ "boost" \in NewValues
      /\ Banks = {"dsp", "sensor"}
      /\ {"COM8", "COM9", "brightness", "contrast"} \subseteq Regs
  BY DEF NewValues, Values, Banks, Regs, DspRegs, SensorRegs
<1>2. /\ Sel("dsp") \in Steps /\ Sel("sensor") \in Steps
      /\ Set("COM8", "auto") \in Steps /\ Set("COM9", "gain32") \in Steps
      /\ Set("brightness", "boost") \in Steps /\ Set("contrast", "boost") \in Steps
  BY <1>1, StepsFacts
<1>3. /\ s \in Seq(Steps) /\ Len(s) = 6
      /\ s[1] = Sel("sensor") /\ s[2] = Set("COM8", "auto") /\ s[3] = Set("COM9", "gain32")
      /\ s[4] = Sel("dsp") /\ s[5] = Set("brightness", "boost")
      /\ s[6] = Set("contrast", "boost")
  BY <1>2 DEF ExposureSettings
<1> HIDE DEF s
<1>4. Banked(s)
  BY <1>3 DEF Banked, Selected, IsSel, IsReset, Sel, Set, BankOf, SensorRegs
<1>5. /\ Settles(s, "COM8", "auto") /\ Settles(s, "COM9", "gain32")
      /\ Settles(s, "brightness", "boost") /\ Settles(s, "contrast", "boost")
  BY <1>3 DEF Settles, IsReset, Set, Sel
<1>6. \A q \in Regs \ {"COM8", "COM9", "brightness", "contrast"} : Leaves(s, q)
  BY <1>3 DEF Leaves, IsReset, Set, Sel, Regs, SensorRegs, DspRegs
<1> QED
  BY <1>3, <1>4, <1>5, <1>6 DEF s

LEMMA TableUxga ==
    /\ UxgaRegs \in Seq(Steps) /\ Banked(UxgaRegs)
    /\ Settles(UxgaRegs, "COM7", "uxga") /\ Settles(UxgaRegs, "array", "uxga")
    /\ Settles(UxgaRegs, "geometry", "uxga") /\ Settles(UxgaRegs, "R_BYPASS", "enabled")
<1> DEFINE s == UxgaRegs
<1>1. /\ {"uxga", "bypassed", "held", "auto", "enabled", "released"} \subseteq NewValues
      /\ Banks = {"dsp", "sensor"}
      /\ {"COM7", "array", "R_BYPASS", "RESET", "geometry", "R_DVP_SP"} \subseteq Regs
  BY DEF NewValues, Values, Banks, Regs, DspRegs, SensorRegs
<1>2. /\ Sel("dsp") \in Steps /\ Sel("sensor") \in Steps
      /\ Set("COM7", "uxga") \in Steps /\ Set("array", "uxga") \in Steps
      /\ Set("R_BYPASS", "bypassed") \in Steps /\ Set("RESET", "held") \in Steps
      /\ Set("geometry", "uxga") \in Steps /\ Set("R_DVP_SP", "auto") \in Steps
      /\ Set("R_BYPASS", "enabled") \in Steps /\ Set("RESET", "released") \in Steps
  BY <1>1, StepsFacts
<1>3. /\ s \in Seq(Steps) /\ Len(s) = 10
      /\ s[1] = Sel("sensor") /\ s[2] = Set("COM7", "uxga") /\ s[3] = Set("array", "uxga")
      /\ s[4] = Sel("dsp") /\ s[5] = Set("R_BYPASS", "bypassed") /\ s[6] = Set("RESET", "held")
      /\ s[7] = Set("geometry", "uxga") /\ s[8] = Set("R_DVP_SP", "auto")
      /\ s[9] = Set("R_BYPASS", "enabled") /\ s[10] = Set("RESET", "released")
  BY <1>2 DEF UxgaRegs
<1> HIDE DEF s
<1>4. Banked(s)
  BY <1>3 DEF Banked, Selected, IsSel, IsReset, Sel, Set, BankOf, SensorRegs
<1>5. /\ Settles(s, "COM7", "uxga") /\ Settles(s, "array", "uxga")
      /\ Settles(s, "geometry", "uxga") /\ Settles(s, "R_BYPASS", "enabled")
  BY <1>3 DEF Settles, IsReset, Set, Sel
<1> QED
  BY <1>3, <1>4, <1>5 DEF s

LEMMA TableDefault == DefaultRegs \in Seq(Steps) /\ Banked(DefaultRegs)
<1> DEFINE s == DefaultRegs
<1>1. /\ {"default", "halted", "auto", "gain8", "held"} \subseteq NewValues
      /\ Banks = {"dsp", "sensor"}
      /\ {"tuning", "CLKRC", "COM8", "COM9", "array", "RESET", "R_DVP_SP"} \subseteq Regs
  BY DEF NewValues, Values, Banks, Regs, DspRegs, SensorRegs
<1>2. /\ Sel("dsp") \in Steps /\ Sel("sensor") \in Steps
      /\ Set("tuning", "default") \in Steps /\ Set("CLKRC", "halted") \in Steps
      /\ Set("COM8", "auto") \in Steps /\ Set("COM9", "gain8") \in Steps
      /\ Set("array", "default") \in Steps /\ Set("RESET", "held") \in Steps
      /\ Set("R_DVP_SP", "auto") \in Steps
  BY <1>1, StepsFacts
<1>3. /\ s \in Seq(Steps) /\ Len(s) = 11
      /\ s[1] = Sel("dsp") /\ s[2] = Set("tuning", "default")
      /\ s[3] = Sel("sensor") /\ s[4] = Set("CLKRC", "halted") /\ s[5] = Set("COM8", "auto")
      /\ s[6] = Set("COM9", "gain8") /\ s[7] = Set("array", "default")
      /\ s[8] = Sel("dsp") /\ s[9] = Set("RESET", "held") /\ s[10] = Set("R_DVP_SP", "auto")
      /\ s[11] = Set("tuning", "default")
  BY <1>2 DEF DefaultRegs
<1> HIDE DEF s
<1>4. Banked(s)
  BY <1>3 DEF Banked, Selected, IsSel, IsReset, Sel, Set, BankOf, SensorRegs
<1> QED
  BY <1>3, <1>4 DEF s

LEMMA TableReset ==
    /\ SoftwareReset \in Seq(Steps) /\ Banked(SoftwareReset)
    /\ \E i \in 1 .. Len(SoftwareReset) : IsReset(SoftwareReset[i])
<1> DEFINE s == SoftwareReset
<1>1. Sel("sensor") \in Steps /\ Set("COM7", "SRST") \in Steps
  BY StepsFacts DEF Banks
<1>2. /\ s \in Seq(Steps) /\ Len(s) = 2
      /\ s[1] = Sel("sensor") /\ s[2] = Set("COM7", "SRST")
  BY <1>1 DEF SoftwareReset
<1> HIDE DEF s
<1>3. Banked(s) /\ IsReset(s[2])
  BY <1>2 DEF Banked, Selected, IsSel, IsReset, Sel, Set, BankOf, SensorRegs
<1> QED
  BY <1>2, <1>3 DEF s
-----------------------------------------------------------------------------
(* One table after another.                                                *)
LEMMA JoinBanked ==
    ASSUME NEW s \in Seq(Steps), NEW t \in Seq(Steps), Banked(s), Banked(t)
    PROVE  s \o t \in Seq(Steps) /\ Banked(s \o t)
<1> DEFINE u == s \o t
<1>1. /\ u \in Seq(Steps) /\ Len(u) = Len(s) + Len(t)
      /\ Len(s) \in Nat /\ Len(t) \in Nat
      /\ \A i \in 1 .. Len(s) + Len(t) : u[i] = IF i <= Len(s) THEN s[i] ELSE t[i - Len(s)]
  BY ConcatProperties, LenProperties
<1> HIDE DEF u
<1>2. ASSUME NEW i \in 1 .. Len(u), ~IsSel(u[i]) PROVE Selected(u, i)
  <2>1. CASE i <= Len(s)
    <3>1. i \in 1 .. Len(s) /\ u[i] = s[i]
      BY <1>1, <2>1
    <3>2. PICK j \in 1 .. i - 1 :
            /\ s[j] = Sel(BankOf(s[i].reg))
            /\ \A k \in j + 1 .. i - 1 : ~IsSel(s[k]) /\ ~IsReset(s[k])
      BY <1>2, <3>1 DEF Banked, Selected
    <3>3. u[j] = s[j] /\ \A k \in j + 1 .. i - 1 : u[k] = s[k]
      BY <1>1, <3>1, <3>2
    <3> QED
      BY <3>1, <3>2, <3>3 DEF Selected
  <2>2. CASE ~(i <= Len(s))
    <3> DEFINE m == i - Len(s)
    <3>1. m \in 1 .. Len(t) /\ u[i] = t[m]
      BY <1>1, <2>2
    <3>2. PICK j \in 1 .. m - 1 :
            /\ t[j] = Sel(BankOf(t[m].reg))
            /\ \A k \in j + 1 .. m - 1 : ~IsSel(t[k]) /\ ~IsReset(t[k])
      BY <1>2, <3>1 DEF Banked, Selected
    <3>3. Len(s) + j \in 1 .. i - 1 /\ u[Len(s) + j] = t[j]
      BY <1>1, <3>1, <3>2
    <3>4. ASSUME NEW k \in Len(s) + j + 1 .. i - 1
          PROVE  ~IsSel(u[k]) /\ ~IsReset(u[k])
      <4>1. k - Len(s) \in j + 1 .. m - 1 /\ u[k] = t[k - Len(s)]
        BY <1>1, <3>1, <3>2, <3>4
      <4> QED
        BY <3>2, <4>1
    <3> QED
      BY <3>1, <3>2, <3>3, <3>4 DEF Selected
  <2> QED
    BY <2>1, <2>2
<1> QED
  BY <1>1, <1>2 DEF Banked, u

LEMMA JoinLeaves ==
    ASSUME NEW s \in Seq(Steps), NEW t \in Seq(Steps), NEW r, Leaves(s, r), Leaves(t, r)
    PROVE  Leaves(s \o t, r)
<1>1. /\ Len(s \o t) = Len(s) + Len(t) /\ Len(s) \in Nat /\ Len(t) \in Nat
      /\ \A i \in 1 .. Len(s) + Len(t) :
           (s \o t)[i] = IF i <= Len(s) THEN s[i] ELSE t[i - Len(s)]
  BY ConcatProperties, LenProperties
<1>2. ASSUME NEW i \in 1 .. Len(s \o t)
      PROVE (s \o t)[i].reg # r /\ ~IsReset((s \o t)[i])
  <2>1. CASE i <= Len(s)
    BY <1>1, <2>1 DEF Leaves
  <2>2. CASE ~(i <= Len(s))
    <3>1. i - Len(s) \in 1 .. Len(t)
      BY <1>1, <2>2
    <3> QED
      BY <1>1, <2>2, <3>1 DEF Leaves
  <2> QED
    BY <2>1, <2>2
<1> QED
  BY <1>2 DEF Leaves

(* What the second one settles is settled, and what the first one has      *)
(* settled if the second one leaves it.                                    *)
LEMMA JoinSettles ==
    ASSUME NEW s \in Seq(Steps), NEW t \in Seq(Steps), NEW r, NEW v,
           Settles(t, r, v) \/ (Settles(s, r, v) /\ Leaves(t, r))
    PROVE  Settles(s \o t, r, v)
<1> DEFINE u == s \o t
<1>1. /\ Len(u) = Len(s) + Len(t) /\ Len(s) \in Nat /\ Len(t) \in Nat
      /\ \A i \in 1 .. Len(s) + Len(t) : u[i] = IF i <= Len(s) THEN s[i] ELSE t[i - Len(s)]
  BY ConcatProperties, LenProperties
<1> HIDE DEF u
<1>2. CASE Settles(t, r, v)
  <2>1. PICK i \in 1 .. Len(t) :
          /\ t[i] = Set(r, v)
          /\ \A j \in i + 1 .. Len(t) : t[j].reg # r /\ ~IsReset(t[j])
    BY <1>2 DEF Settles
  <2>2. Len(s) + i \in 1 .. Len(u) /\ u[Len(s) + i] = t[i]
    BY <1>1
  <2>3. ASSUME NEW j \in Len(s) + i + 1 .. Len(u) PROVE u[j].reg # r /\ ~IsReset(u[j])
    <3>1. j - Len(s) \in i + 1 .. Len(t) /\ u[j] = t[j - Len(s)]
      BY <1>1
    <3> QED
      BY <2>1, <3>1
  <2> QED
    BY <2>1, <2>2, <2>3 DEF Settles, u
<1>3. CASE Settles(s, r, v) /\ Leaves(t, r)
  <2>1. PICK i \in 1 .. Len(s) :
          /\ s[i] = Set(r, v)
          /\ \A j \in i + 1 .. Len(s) : s[j].reg # r /\ ~IsReset(s[j])
    BY <1>3 DEF Settles
  <2>2. i \in 1 .. Len(u) /\ u[i] = s[i]
    BY <1>1
  <2>3. ASSUME NEW j \in i + 1 .. Len(u) PROVE u[j].reg # r /\ ~IsReset(u[j])
    <3>1. CASE j <= Len(s)
      BY <1>1, <2>1, <3>1
    <3>2. CASE ~(j <= Len(s))
      <4>1. j - Len(s) \in 1 .. Len(t) /\ u[j] = t[j - Len(s)]
        BY <1>1, <3>2
      <4> QED
        BY <1>3, <4>1 DEF Leaves
    <3> QED
      BY <3>1, <3>2
  <2> QED
    BY <2>1, <2>2, <2>3 DEF Settles, u
<1> QED
  BY <1>2, <1>3

LEMMA JoinReset ==
    ASSUME NEW s \in Seq(Steps), NEW t \in Seq(Steps),
           \E i \in 1 .. Len(s) : IsReset(s[i])
    PROVE  \E i \in 1 .. Len(s \o t) : IsReset((s \o t)[i])
BY ConcatProperties, LenProperties

(* What a configuration sets, and what only the boot sets beyond that.     *)
ShowRegs == {"ZMOW", "ZMOH", "ZMHH", "QS", "IMAGE_MODE", "RESET", "CLKRC", "R_DVP_SP"}
ShowVal(res, r) ==
    CASE r = "IMAGE_MODE" -> "jpeg"
      [] r = "RESET"      -> "released"
      [] r = "CLKRC"      -> "full"
      [] r = "R_DVP_SP"   -> "div8"
      [] OTHER            -> res

BootRegs == {"COM7", "array", "geometry", "R_BYPASS", "COM8", "COM9", "brightness", "contrast"}
BootVal(r) ==
    CASE r \in {"COM7", "array", "geometry"} -> "uxga"
      [] r = "R_BYPASS" -> "enabled"
      [] r = "COM8"     -> "auto"
      [] r = "COM9"     -> "gain32"
      [] OTHER          -> "boost"

LEMMA ShowFacts ==
    /\ ShowRegs \subseteq Regs /\ BootRegs \subseteq Regs /\ ShowRegs \cap BootRegs = {}
    /\ \A res : Shows(res) <=> \A r \in ShowRegs : regs[r] = ShowVal(res, r)
BY DEF ShowRegs, BootRegs, Regs, SensorRegs, DspRegs, Shows, ShowVal

(* The sequence of a switch settles the configuration, and leaves what     *)
(* only the boot sets.                                                     *)
LEMMA SwitchSequence ==
    ASSUME NEW res \in Res
    PROVE  LET s == camera_set_resolution(res)
           IN /\ s \in Seq(Steps) /\ Banked(s)
              /\ \A r \in ShowRegs : Settles(s, r, ShowVal(res, r))
              /\ \A r \in BootRegs : Leaves(s, r)
<1> DEFINE w == WindowRegs(res)  j == JpegRegs  t == JpegSettings(res)
           wj == w \o j  s == wj \o t
<1>1. /\ w \in Seq(Steps) /\ j \in Seq(Steps) /\ t \in Seq(Steps)
      /\ Banked(w) /\ Banked(j) /\ Banked(t)
  BY TableWindow, TableJpeg, TableSettings
<1>2. wj \in Seq(Steps) /\ Banked(wj)
  BY <1>1, JoinBanked
<1>3. s \in Seq(Steps) /\ Banked(s)
  BY <1>1, <1>2, JoinBanked
<1>4. ASSUME NEW r \in ShowRegs PROVE Settles(s, r, ShowVal(res, r))
  <2>1. CASE r \in {"ZMOW", "ZMOH", "ZMHH"}
    <3>1. r \in Regs /\ ShowVal(res, r) = res /\ r \notin {"RESET", "IMAGE_MODE", "tuning"}
          /\ r \notin {"CLKRC", "R_DVP_SP", "QS"}
      BY <2>1, ShowFacts DEF ShowVal
    <3>2. Settles(w, r, res) /\ Leaves(j, r) /\ Leaves(t, r)
      BY <2>1, <3>1, TableWindow, TableJpeg, TableSettings
    <3>3. Settles(wj, r, res)
      BY <1>1, <3>2, JoinSettles
    <3> QED
      BY <1>1, <1>2, <3>1, <3>2, <3>3, JoinSettles
  <2>2. CASE r \in {"IMAGE_MODE", "RESET"}
    <3>1. r \in Regs /\ r \notin {"CLKRC", "R_DVP_SP", "QS"}
      BY <2>2, ShowFacts
    <3>2. Settles(j, r, ShowVal(res, r)) /\ Leaves(t, r)
      BY <2>2, <3>1, TableJpeg, TableSettings DEF ShowVal
    <3>3. Settles(wj, r, ShowVal(res, r))
      BY <1>1, <3>2, JoinSettles
    <3> QED
      BY <1>1, <1>2, <3>2, <3>3, JoinSettles
  <2>3. CASE r \in {"CLKRC", "R_DVP_SP", "QS"}
    <3>1. Settles(t, r, ShowVal(res, r))
      BY <2>3, TableSettings DEF ShowVal
    <3> QED
      BY <1>1, <1>2, <3>1, JoinSettles
  <2> QED
    BY <2>1, <2>2, <2>3 DEF ShowRegs
<1>5. ASSUME NEW r \in BootRegs PROVE Leaves(s, r)
  <2>1. r \in Regs /\ r \notin {"ZMOW", "ZMOH", "ZMHH"}
        /\ r \notin {"RESET", "IMAGE_MODE", "tuning"} /\ r \notin {"CLKRC", "R_DVP_SP", "QS"}
    BY ShowFacts DEF BootRegs
  <2>2. Leaves(w, r) /\ Leaves(j, r) /\ Leaves(t, r)
    BY <2>1, TableWindow, TableJpeg, TableSettings
  <2>3. Leaves(wj, r)
    BY <1>1, <2>2, JoinLeaves
  <2> QED
    BY <1>1, <1>2, <2>2, <2>3, JoinLeaves
<1> QED
  BY <1>3, <1>4, <1>5 DEF camera_set_resolution

(* The boot sequence settles all of it, and resets the sensor first.       *)
LEMMA BootSequence ==
    LET s == camera_configure_jpeg_qvga
    IN /\ s \in Seq(Steps) /\ Banked(s)
       /\ \A r \in ShowRegs : Settles(s, r, ShowVal(Qvga, r))
       /\ \A r \in BootRegs : Settles(s, r, BootVal(r))
       /\ \E i \in 1 .. Len(s) : IsReset(s[i])
<1> DEFINE s1 == SoftwareReset \o DefaultRegs
           s2 == s1 \o UxgaRegs
           s3 == s2 \o WindowRegs(Qvga)
           s4 == s3 \o JpegRegs
           s5 == s4 \o JpegSettings(Qvga)
           s6 == s5 \o ExposureSettings
<1> USE SensorAssumption
<1>1. /\ SoftwareReset \in Seq(Steps) /\ DefaultRegs \in Seq(Steps) /\ UxgaRegs \in Seq(Steps)
      /\ WindowRegs(Qvga) \in Seq(Steps) /\ JpegRegs \in Seq(Steps)
      /\ JpegSettings(Qvga) \in Seq(Steps) /\ ExposureSettings \in Seq(Steps)
  BY TableReset, TableDefault, TableUxga, TableWindow, TableJpeg, TableSettings, TableExposure
<1>2. s1 \in Seq(Steps) /\ Banked(s1)
  BY TableReset, TableDefault, JoinBanked
<1>3. s2 \in Seq(Steps) /\ Banked(s2)
  BY <1>2, TableUxga, JoinBanked
<1>4. s3 \in Seq(Steps) /\ Banked(s3)
  BY <1>3, TableWindow, JoinBanked
<1>5. s4 \in Seq(Steps) /\ Banked(s4)
  BY <1>4, TableJpeg, JoinBanked
<1>6. s5 \in Seq(Steps) /\ Banked(s5)
  BY <1>5, TableSettings, JoinBanked
<1>7. s6 \in Seq(Steps) /\ Banked(s6)
  BY <1>6, TableExposure, JoinBanked
<1>8. \E i \in 1 .. Len(s6) : IsReset(s6[i])
  <2>1. \E i \in 1 .. Len(s1) : IsReset(s1[i])
    BY <1>1, TableReset, JoinReset
  <2>2. \E i \in 1 .. Len(s2) : IsReset(s2[i])
    BY <1>1, <1>2, <2>1, JoinReset
  <2>3. \E i \in 1 .. Len(s3) : IsReset(s3[i])
    BY <1>1, <1>3, <2>2, JoinReset
  <2>4. \E i \in 1 .. Len(s4) : IsReset(s4[i])
    BY <1>1, <1>4, <2>3, JoinReset
  <2>5. \E i \in 1 .. Len(s5) : IsReset(s5[i])
    BY <1>1, <1>5, <2>4, JoinReset
  <2> QED
    BY <1>1, <1>6, <2>5, JoinReset
<1>9. ASSUME NEW r \in ShowRegs PROVE Settles(s6, r, ShowVal(Qvga, r))
  <2> DEFINE v == ShowVal(Qvga, r)
  <2>1. r \in Regs \ {"COM8", "COM9", "brightness", "contrast"}
    BY ShowFacts DEF ShowRegs
  <2>2. Leaves(ExposureSettings, r)
    BY <2>1, TableExposure
  <2>3. Settles(s5, r, v)
    <3>1. CASE r \in {"ZMOW", "ZMOH", "ZMHH"}
      <4>1. v = Qvga /\ r \in Regs \ {"RESET", "IMAGE_MODE", "tuning"}
            /\ r \in Regs \ {"CLKRC", "R_DVP_SP", "QS"}
        BY <2>1, <3>1 DEF ShowVal
      <4>2. Settles(WindowRegs(Qvga), r, v) /\ Leaves(JpegRegs, r)
            /\ Leaves(JpegSettings(Qvga), r)
        BY <3>1, <4>1, TableWindow, TableJpeg, TableSettings
      <4>3. Settles(s3, r, v)
        BY <1>1, <1>3, <4>2, JoinSettles
      <4>4. Settles(s4, r, v)
        BY <1>1, <1>4, <4>2, <4>3, JoinSettles
      <4> QED
        BY <1>1, <1>5, <4>2, <4>4, JoinSettles
    <3>2. CASE r \in {"IMAGE_MODE", "RESET"}
      <4>1. Settles(JpegRegs, r, v) /\ Leaves(JpegSettings(Qvga), r)
        BY <2>1, <3>2, TableJpeg, TableSettings DEF ShowVal
      <4>2. Settles(s4, r, v)
        BY <1>1, <1>4, <4>1, JoinSettles
      <4> QED
        BY <1>1, <1>5, <4>1, <4>2, JoinSettles
    <3>3. CASE r \in {"CLKRC", "R_DVP_SP", "QS"}
      <4>1. Settles(JpegSettings(Qvga), r, v)
        BY <3>3, TableSettings DEF ShowVal
      <4> QED
        BY <1>1, <1>5, <4>1, JoinSettles
    <3> QED
      BY <3>1, <3>2, <3>3 DEF ShowRegs
  <2> HIDE DEF v
  <2>4. Settles(s6, r, v)
    BY <1>1, <1>6, <2>2, <2>3, JoinSettles
  <2> QED
    BY <2>4 DEF v
<1>10. ASSUME NEW r \in BootRegs PROVE Settles(s6, r, BootVal(r))
  <2> DEFINE v == BootVal(r)
  <2>1. CASE r \in {"COM7", "array", "geometry", "R_BYPASS"}
    <3>1. /\ r \in Regs \ {"COM8", "COM9", "brightness", "contrast"}
          /\ r \in Regs \ {"RESET", "IMAGE_MODE", "tuning"}
          /\ r \in Regs \ {"CLKRC", "R_DVP_SP", "QS"}
          /\ r \in Regs \ {"ZMOW", "ZMOH", "ZMHH"}
      BY <2>1, ShowFacts
    <3>2. /\ Leaves(WindowRegs(Qvga), r) /\ Leaves(JpegRegs, r)
          /\ Leaves(JpegSettings(Qvga), r) /\ Leaves(ExposureSettings, r)
      BY <3>1, TableWindow, TableJpeg, TableSettings, TableExposure
    <3>3. Settles(UxgaRegs, r, v)
      BY <2>1, TableUxga DEF BootVal
    <3>4. Settles(s2, r, v)
      BY <1>1, <1>2, <3>3, JoinSettles
    <3>5. Settles(s3, r, v)
      BY <1>1, <1>3, <3>2, <3>4, JoinSettles
    <3>6. Settles(s4, r, v)
      BY <1>1, <1>4, <3>2, <3>5, JoinSettles
    <3>7. Settles(s5, r, v)
      BY <1>1, <1>5, <3>2, <3>6, JoinSettles
    <3> QED
      BY <1>1, <1>6, <3>2, <3>7, JoinSettles
  <2>2. CASE r \in {"COM8", "COM9", "brightness", "contrast"}
    <3>1. Settles(ExposureSettings, r, v)
      BY <2>2, TableExposure DEF BootVal
    <3> QED
      BY <1>1, <1>6, <3>1, JoinSettles
  <2> QED
    BY <2>1, <2>2 DEF BootRegs
<1> QED
  BY <1>7, <1>8, <1>9, <1>10 DEF camera_configure_jpeg_qvga
-----------------------------------------------------------------------------
(* The writes still to do find their bank: selected among them, or now,    *)
(* with nothing before them that selects or resets.                        *)
BankInv ==
    \A i \in 1 .. Len(todo) : ~IsSel(todo[i]) =>
        \/ Selected(todo, i)
        \/ /\ bank = BankOf(todo[i].reg)
           /\ \A k \in 1 .. i - 1 : ~IsSel(todo[k]) /\ ~IsReset(todo[k])

(* Register r has value v, or gets it by what is still to do.              *)
Comes(r, v) == Settles(todo, r, v) \/ (Leaves(todo, r) /\ regs[r] = v)

NothingOld == \A r \in Regs : regs[r] # "old"

BootInv == op = "boot" =>
    /\ (\E i \in 1 .. Len(todo) : IsReset(todo[i])) \/ NothingOld
    /\ \A r \in ShowRegs : Comes(r, ShowVal(Qvga, r))
    /\ \A r \in BootRegs : Comes(r, BootVal(r))

SwitchInv == op = "switch" => \A r \in ShowRegs : Comes(r, ShowVal(target, r))

BootedInv ==
    /\ op \in {"off", "probe", "boot"} => current_res = Qvga
    /\ booted => /\ op \in {"idle", "switch"} /\ NothingOld
                 /\ \A r \in BootRegs : Leaves(todo, r) /\ regs[r] = BootVal(r)

AppliedInv == applied => op = "idle" /\ \A r \in ShowRegs : regs[r] = ShowVal(current_res, r)

IInv ==
    /\ TypeOK /\ todo \in Seq(Steps)
    /\ BankInv /\ BootInv /\ SwitchInv /\ BootedInv /\ AppliedInv

(* What a write does to bank and registers, if it gets through.            *)
LEMMA EffectFacts ==
    ASSUME TypeOK, todo \in Seq(Steps), BankInv, todo # <<>>, Effect(Head(todo))
    PROVE  /\ bank' \in Banks /\ regs' \in [Regs -> Values]
           /\ todo[1] \in Steps /\ Head(todo) = todo[1] /\ Len(todo) \in Nat \ {0}
           /\ IsSel(todo[1]) => todo[1] = Sel(bank') /\ regs' = regs
           /\ IsReset(todo[1]) => ~IsSel(todo[1]) /\ \A r \in Regs : regs'[r] = "reset"
           /\ ~IsSel(todo[1]) /\ ~IsReset(todo[1]) =>
                bank' = bank /\ regs' = [regs EXCEPT ![todo[1].reg] = todo[1].val]
           /\ NothingOld => NothingOld'
           /\ \A r \in Regs : Leaves(todo, r) => regs'[r] = regs[r]
<1> DEFINE w == todo[1]
<1>1. Head(todo) = w /\ Len(todo) \in Nat \ {0} /\ w \in Steps /\ 1 \in 1 .. Len(todo)
  BY EmptySeq, LenProperties, ElementOfSeq
<1>2. /\ IsSel(w) => w.val \in Banks
      /\ ~IsSel(w) => w.reg \in Regs
      /\ ~IsSel(w) /\ ~IsReset(w) => w.val \in NewValues
      /\ IsReset(w) => w.reg = "COM7"
      /\ w = [reg |-> w.reg, val |-> w.val]
  BY <1>1, StepsFacts
<1>3. ~IsSel(w) => bank = BankOf(w.reg)
  BY <1>1 DEF BankInv, Selected
<1>4. \A r : Leaves(todo, r) => w.reg # r /\ ~IsReset(w)
  BY <1>1 DEF Leaves
<1>5. "reset" \in Values /\ NewValues \subseteq Values /\ "old" \notin NewValues
  BY DEF Values, NewValues
<1> HIDE DEF w
<1>6. Effect(w)
  BY <1>1
<1>7. CASE IsSel(w)
  <2>1. ~IsReset(w)
    BY <1>2, <1>7 DEF IsSel
  <2>2. bank' = w.val /\ regs' = regs
    BY <1>6, <1>7, <2>1 DEF Effect, IsSel, IsReset
  <2>3. w = Sel(bank')
    BY <1>2, <1>7, <2>2 DEF Sel, IsSel
  <2> QED
    BY <1>1, <1>2, <1>7, <2>1, <2>2, <2>3 DEF w, TypeOK, NothingOld
<1>8. CASE ~IsSel(w) /\ IsReset(w)
  <2>1. bank = "sensor"
    BY <1>2, <1>3, <1>8 DEF BankOf, SensorRegs
  <2>2. bank' \in Banks /\ regs' = [r \in Regs |-> "reset"]
    BY <1>6, <1>8, <2>1 DEF Effect, IsSel, IsReset
  <2> QED
    BY <1>1, <1>4, <1>5, <1>8, <2>2 DEF w, NothingOld
<1>9. CASE ~IsSel(w) /\ ~IsReset(w)
  <2>1. bank' = bank /\ regs' = [regs EXCEPT ![w.reg] = w.val]
    BY <1>3, <1>6, <1>9 DEF Effect, IsSel, IsReset
  <2>2. regs \in [Regs -> Values] /\ w.reg \in Regs /\ w.val \in NewValues
    BY <1>2, <1>9 DEF TypeOK
  <2>3. regs' \in [Regs -> Values] /\ (NothingOld => NothingOld')
    BY <1>5, <2>1, <2>2 DEF NothingOld
  <2>4. \A r \in Regs : r # w.reg => regs'[r] = regs[r]
    BY <2>1, <2>2
  <2> QED
    BY <1>1, <1>4, <1>9, <2>1, <2>3, <2>4 DEF w, TypeOK
<1> QED
  BY <1>7, <1>8, <1>9

(* What is still to do, one write later.                                   *)
LEMMA TailFacts ==
    ASSUME todo \in Seq(Steps), todo # <<>>
    PROVE  /\ Tail(todo) \in Seq(Steps) /\ Len(Tail(todo)) = Len(todo) - 1
           /\ Len(todo) \in Nat \ {0}
           /\ \A i \in 1 .. Len(Tail(todo)) : Tail(todo)[i] = todo[i + 1]
BY HeadTailProperties, EmptySeq, LenProperties

LEMMA TailBank ==
    ASSUME TypeOK, todo \in Seq(Steps), BankInv, todo # <<>>, Effect(Head(todo)),
           todo' = Tail(todo)
    PROVE  BankInv'
<1> DEFINE t == Tail(todo)
<1>1. /\ t \in Seq(Steps) /\ Len(t) = Len(todo) - 1 /\ Len(todo) \in Nat \ {0}
      /\ \A i \in 1 .. Len(t) : t[i] = todo[i + 1]
  BY TailFacts
<1>2. /\ IsSel(todo[1]) => todo[1] = Sel(bank')
      /\ ~IsSel(todo[1]) /\ ~IsReset(todo[1]) => bank' = bank
  BY EffectFacts
<1> HIDE DEF t
<1>3. ASSUME NEW i \in 1 .. Len(t), ~IsSel(t[i])
      PROVE  \/ Selected(t, i)
             \/ /\ bank' = BankOf(t[i].reg)
                /\ \A k \in 1 .. i - 1 : ~IsSel(t[k]) /\ ~IsReset(t[k])
  <2>1. i + 1 \in 1 .. Len(todo) /\ t[i] = todo[i + 1]
    BY <1>1
  <2>2. CASE Selected(todo, i + 1)
    <3>1. PICK j \in 1 .. i :
            /\ todo[j] = Sel(BankOf(t[i].reg))
            /\ \A k \in j + 1 .. i : ~IsSel(todo[k]) /\ ~IsReset(todo[k])
      BY <2>1, <2>2 DEF Selected
    <3>2. ASSUME NEW k \in 1 .. i - 1, k >= j PROVE ~IsSel(t[k]) /\ ~IsReset(t[k])
      <4>1. k + 1 \in j + 1 .. i /\ t[k] = todo[k + 1]
        BY <1>1, <3>1, <3>2
      <4> QED
        BY <3>1, <4>1
    <3>3. CASE j = 1
      <4>1. IsSel(todo[1]) /\ todo[1] = Sel(bank')
        BY <1>2, <3>1, <3>3 DEF IsSel, Sel
      <4>2. bank' = BankOf(t[i].reg)
        BY <3>1, <3>3, <4>1 DEF Sel
      <4>3. \A k \in 1 .. i - 1 : ~IsSel(t[k]) /\ ~IsReset(t[k])
        BY <3>2, <3>3
      <4> QED
        BY <4>2, <4>3
    <3>4. CASE j # 1
      <4>1. j - 1 \in 1 .. i - 1 /\ t[j - 1] = todo[j]
        BY <1>1, <3>1, <3>4
      <4>2. \A k \in j .. i - 1 : ~IsSel(t[k]) /\ ~IsReset(t[k])
        BY <3>2
      <4>3. (j - 1) + 1 = j
        BY <3>1
      <4> QED
        BY <3>1, <4>1, <4>2, <4>3 DEF Selected
    <3> QED
      BY <3>3, <3>4
  <2>3. CASE /\ bank = BankOf(todo[i + 1].reg)
             /\ \A k \in 1 .. i : ~IsSel(todo[k]) /\ ~IsReset(todo[k])
    <3>1. bank' = bank
      BY <1>2, <2>3
    <3>2. \A k \in 1 .. i - 1 : t[k] = todo[k + 1] /\ k + 1 \in 1 .. i
      BY <1>1
    <3> QED
      BY <2>1, <2>3, <3>1, <3>2
  <2> QED
    BY <1>3, <2>1, <2>2, <2>3 DEF BankInv
<1> QED
  BY <1>3 DEF BankInv, t

(* What comes still comes.                                                 *)
LEMMA TailComes ==
    ASSUME TypeOK, todo \in Seq(Steps), BankInv, todo # <<>>, Effect(Head(todo)),
           todo' = Tail(todo), NEW r \in Regs, NEW v, v # "SRST", Comes(r, v)
    PROVE  Comes(r, v)'
<1> DEFINE t == Tail(todo)
<1>1. /\ t \in Seq(Steps) /\ Len(t) = Len(todo) - 1 /\ Len(todo) \in Nat \ {0}
      /\ \A i \in 1 .. Len(t) : t[i] = todo[i + 1]
  BY TailFacts
<1> HIDE DEF t
<1>2. CASE Settles(todo, r, v)
  <2>1. PICK i \in 1 .. Len(todo) :
          /\ todo[i] = Set(r, v)
          /\ \A j \in i + 1 .. Len(todo) : todo[j].reg # r /\ ~IsReset(todo[j])
    BY <1>2 DEF Settles
  <2>2. ASSUME NEW j \in 1 .. Len(t), j >= i PROVE t[j].reg # r /\ ~IsReset(t[j])
    <3>1. j + 1 \in i + 1 .. Len(todo) /\ t[j] = todo[j + 1]
      BY <1>1, <2>1, <2>2
    <3> QED
      BY <2>1, <3>1
  <2>3. CASE i = 1
    <3>1. Leaves(t, r)
      BY <2>2, <2>3 DEF Leaves
    <3>2. CASE IsReset(todo[1])
      <4>1. v = "SRST"
        BY <2>1, <2>3, <3>2 DEF IsReset, Set
      <4> QED
        BY <4>1
    <3>3. CASE ~IsReset(todo[1])
      <4>1. ~IsSel(todo[1]) /\ todo[1].reg = r /\ todo[1].val = v
        BY <2>1, <2>3 DEF IsSel, Set, Regs, SensorRegs, DspRegs
      <4>2. regs' = [regs EXCEPT ![r] = v] /\ regs \in [Regs -> Values]
        BY <3>3, <4>1, EffectFacts DEF TypeOK
      <4> QED
        BY <3>1, <4>2 DEF Comes, t
    <3> QED
      BY <3>2, <3>3
  <2>4. CASE i # 1
    <3>1. i - 1 \in 1 .. Len(t) /\ t[i - 1] = Set(r, v)
      BY <1>1, <2>1, <2>4
    <3>2. \A j \in (i - 1) + 1 .. Len(t) : t[j].reg # r /\ ~IsReset(t[j])
      BY <1>1, <2>1, <2>2, <2>4
    <3> QED
      BY <3>1, <3>2 DEF Settles, Comes, t
  <2> QED
    BY <2>3, <2>4
<1>3. CASE Leaves(todo, r) /\ regs[r] = v
  <2>1. regs'[r] = v
    BY <1>3, EffectFacts
  <2>2. Leaves(t, r)
    BY <1>1, <1>3 DEF Leaves
  <2> QED
    BY <2>1, <2>2 DEF Comes, t
<1> QED
  BY <1>2, <1>3 DEF Comes
-----------------------------------------------------------------------------
(* With nothing to do what comes is there.                                 *)
LEMMA Came ==
    ASSUME todo = <<>>, NEW r, NEW v, Comes(r, v)
    PROVE  regs[r] = v
BY DEF Comes, Settles

LEMMA ValuesNoReset ==
    /\ \A res \in Res, r \in ShowRegs : ShowVal(res, r) # "SRST"
    /\ \A r \in BootRegs : BootVal(r) # "SRST"
BY SensorAssumption DEF ShowVal, BootVal, ShowRegs, BootRegs

LEMMA InvInit == Init => IInv
<1> SUFFICES ASSUME Init PROVE IInv
  OBVIOUS
<1> USE DEF Init
<1>1. todo \in Seq(Steps) /\ Len(todo) = 0
  BY EmptySeq
<1>2. TypeOK
  <2>1. regs \in [Regs -> Values] /\ \A i \in DOMAIN todo : todo[i] \in Writes
    BY <1>1, SeqStepsWrites DEF Values
  <2> QED
    BY <2>1, SensorAssumption DEF TypeOK
<1> QED
  BY <1>1, <1>2 DEF IInv, BankInv, BootInv, SwitchInv, BootedInv, AppliedInv

(* A write.                                                                *)
LEMMA InvWrite == ASSUME IInv, ov2640_write_reg PROVE IInv'
<1> USE DEF IInv
<1>1. /\ todo # <<>> /\ Effect(Head(todo)) /\ todo' = Tail(todo)
      /\ UNCHANGED <<op, target, current_res, cam_detected, booted, applied>>
  BY DEF ov2640_write_reg
<1>2. op \in {"boot", "switch"}
  BY <1>1 DEF TypeOK
<1>3. TypeOK' /\ todo' \in Seq(Steps)
  <2>1. bank' \in Banks /\ regs' \in [Regs -> Values]
    BY <1>1, EffectFacts
  <2>2. todo' \in Seq(Steps)
    BY <1>1, TailFacts
  <2>3. \A i \in DOMAIN todo' : todo'[i] \in Writes
    BY <2>2, SeqStepsWrites
  <2> QED
    BY <1>1, <1>2, <2>1, <2>2, <2>3 DEF TypeOK
<1>4. BankInv'
  BY <1>1, TailBank
<1>5. \A r \in Regs : \A v : v # "SRST" /\ Comes(r, v) => Comes(r, v)'
  BY <1>1, TailComes
<1>6. ShowRegs \subseteq Regs /\ BootRegs \subseteq Regs /\ Qvga \in Res /\ target \in Res
  BY ShowFacts, SensorAssumption DEF TypeOK
<1>7. BootInv'
  <2> SUFFICES ASSUME op = "boot" PROVE BootInv'
    BY <1>1 DEF BootInv
  <2>1. \A r \in ShowRegs : Comes(r, ShowVal(Qvga, r))'
    BY <1>5, <1>6, ValuesNoReset DEF BootInv
  <2>2. \A r \in BootRegs : Comes(r, BootVal(r))'
    BY <1>5, <1>6, ValuesNoReset DEF BootInv
  <2>3. (\E i \in 1 .. Len(todo') : IsReset(todo'[i])) \/ NothingOld'
    <3>1. CASE NothingOld
      BY <1>1, <3>1, EffectFacts
    <3>2. CASE \E i \in 1 .. Len(todo) : IsReset(todo[i])
      <4>1. PICK i \in 1 .. Len(todo) : IsReset(todo[i])
        BY <3>2
      <4>2. CASE i = 1
        <5>1. \A r \in Regs : regs'[r] = "reset"
          BY <1>1, <4>1, <4>2, EffectFacts
        <5> QED
          BY <5>1 DEF NothingOld
      <4>3. CASE i # 1
        <5>1. i - 1 \in 1 .. Len(todo') /\ todo'[i - 1] = todo[i]
          BY <1>1, <4>3, TailFacts
        <5> QED
          BY <4>1, <5>1
      <4> QED
        BY <4>2, <4>3
    <3> QED
      BY <3>1, <3>2 DEF BootInv
  <2> QED
    BY <2>1, <2>2, <2>3 DEF BootInv, ShowVal, BootVal
<1>8. SwitchInv'
  <2> SUFFICES ASSUME op = "switch"
               PROVE  \A r \in ShowRegs : Comes(r, ShowVal(target, r))'
    BY <1>1 DEF SwitchInv
  <2>1. ASSUME NEW r \in ShowRegs PROVE Comes(r, ShowVal(target, r))'
    <3>1. r \in Regs /\ Comes(r, ShowVal(target, r)) /\ ShowVal(target, r) # "SRST"
      BY <1>6, ValuesNoReset DEF SwitchInv
    <3>2. ShowVal(target, r)' = ShowVal(target, r)
      BY <1>1 DEF ShowVal
    <3> QED
      BY <1>5, <3>1, <3>2
  <2> QED
    BY <2>1
<1>9. BootedInv'
  <2> SUFFICES ASSUME booted PROVE
          NothingOld' /\ \A r \in BootRegs : Leaves(todo', r) /\ regs'[r] = BootVal(r)
    BY <1>1 DEF BootedInv
  <2>1. NothingOld /\ \A r \in BootRegs : Leaves(todo, r) /\ regs[r] = BootVal(r)
    BY DEF BootedInv
  <2>2. NothingOld' /\ \A r \in BootRegs : regs'[r] = BootVal(r)
    BY <1>1, <1>6, <2>1, EffectFacts
  <2>3. \A r \in BootRegs : Leaves(todo', r)
    BY <1>1, <2>1, TailFacts DEF Leaves
  <2> QED
    BY <2>2, <2>3
<1>10. AppliedInv'
  BY <1>1, <1>2 DEF AppliedInv
<1> QED
  BY <1>3, <1>4, <1>7, <1>8, <1>9, <1>10

(* A write that fails, with or without an effect.                          *)
LEMMA InvFails == ASSUME IInv, WriteFails PROVE IInv'
<1> USE DEF IInv
<1>1. /\ todo # <<>>
      /\ Effect(Head(todo)) \/ UNCHANGED <<bank, regs>>
      /\ todo' = <<>> /\ op' = "idle"
      /\ UNCHANGED <<target, current_res, cam_detected, booted, applied>>
  BY DEF WriteFails
<1>2. op \in {"boot", "switch"}
  BY <1>1 DEF TypeOK
<1>3. /\ bank' \in Banks /\ regs' \in [Regs -> Values]
      /\ NothingOld => NothingOld'
      /\ \A r \in Regs : Leaves(todo, r) => regs'[r] = regs[r]
  BY <1>1, EffectFacts DEF TypeOK, NothingOld
<1>4. todo' \in Seq(Steps) /\ Len(todo') = 0
  BY <1>1, EmptySeq
<1>5. TypeOK'
  BY <1>1, <1>3, <1>4 DEF TypeOK
<1>6. BankInv' /\ BootInv' /\ SwitchInv' /\ AppliedInv'
  BY <1>1, <1>2, <1>4 DEF BankInv, BootInv, SwitchInv, AppliedInv
<1>7. BootedInv'
  BY <1>1, <1>3, <1>4, ShowFacts DEF BootedInv, Leaves
<1> QED
  BY <1>4, <1>5, <1>6, <1>7

(* The beginning and the end of a sequence, and all else.                  *)
LEMMA InvControl ==
    ASSUME IInv, \/ PowerUp \/ camera_sccb_probe \/ BootDone \/ SetResolution
                 \/ SwitchDone \/ Restart \/ UNCHANGED vars
    PROVE  IInv'
<1> USE DEF IInv
<1>1. CASE PowerUp
  <2>1. op = "off" /\ todo = <<>> /\ Len(todo) = 0
    BY <1>1, EmptySeq DEF PowerUp, TypeOK
  <2>2. TypeOK'
    BY <1>1 DEF PowerUp, TypeOK, Writes
  <2> QED
    BY <1>1, <2>1, <2>2 DEF PowerUp, BankInv, BootInv, SwitchInv, BootedInv, AppliedInv
<1>2. CASE camera_sccb_probe
  <2>1. op = "probe" /\ todo = <<>> /\ Len(todo) = 0 /\ ~booted /\ ~applied /\ bank' \in Banks
        /\ UNCHANGED <<regs, target, current_res, booted, applied>> /\ current_res = Qvga
    BY <1>2, EmptySeq DEF camera_sccb_probe, TypeOK, BootedInv, AppliedInv, Banks
  <2>2. CASE op' = "idle" /\ UNCHANGED <<todo, cam_detected>>
    BY <2>1, <2>2 DEF TypeOK, Writes, BankInv, BootInv, SwitchInv, BootedInv, AppliedInv
  <2>3. CASE op' = "boot" /\ todo' = camera_configure_jpeg_qvga /\ cam_detected' = TRUE
    <3>1. todo' \in Seq(Steps) /\ Banked(todo')
      BY <2>3, BootSequence
    <3>2. TypeOK'
      BY <2>1, <2>3, <3>1, SeqStepsWrites DEF TypeOK
    <3>3. BankInv'
      BY <3>1 DEF BankInv, Banked
    <3>4. BootInv'
      BY <2>3, BootSequence DEF BootInv, Comes, ShowVal, BootVal
    <3> QED
      BY <2>1, <2>3, <3>1, <3>2, <3>3, <3>4 DEF SwitchInv, BootedInv, AppliedInv
  <2> QED
    BY <1>2, <2>2, <2>3 DEF camera_sccb_probe
<1>3. CASE BootDone
  <2>1. op = "boot" /\ todo = <<>> /\ Len(todo) = 0 /\ current_res = Qvga
    BY <1>3, EmptySeq DEF BootDone, BootedInv
  <2>2. /\ NothingOld /\ \A r \in ShowRegs : regs[r] = ShowVal(Qvga, r)
        /\ \A r \in BootRegs : regs[r] = BootVal(r)
    BY <2>1, Came DEF BootInv
  <2>3. TypeOK'
    BY <1>3 DEF BootDone, TypeOK, Writes
  <2>4. BankInv' /\ BootInv' /\ SwitchInv'
    BY <1>3, <2>1 DEF BootDone, BankInv, BootInv, SwitchInv
  <2>5. BootedInv'
    BY <1>3, <2>1, <2>2 DEF BootDone, BootedInv, NothingOld, Leaves
  <2>6. AppliedInv'
    BY <1>3, <2>1, <2>2 DEF BootDone, AppliedInv, ShowVal
  <2> QED
    BY <1>3, <2>3, <2>4, <2>5, <2>6 DEF BootDone
<1>4. CASE SetResolution
  <2>1. PICK r \in Res : target' = r /\ todo' = camera_set_resolution(r)
    BY <1>4 DEF SetResolution
  <2>2. /\ op = "idle" /\ op' = "switch" /\ applied' = FALSE
        /\ UNCHANGED <<bank, regs, current_res, cam_detected, booted>>
    BY <1>4 DEF SetResolution
  <2>3. /\ todo' \in Seq(Steps) /\ Banked(todo')
        /\ \A q \in ShowRegs : Settles(todo', q, ShowVal(r, q))
        /\ \A q \in BootRegs : Leaves(todo', q)
    BY <2>1, SwitchSequence
  <2>4. TypeOK'
    BY <2>1, <2>2, <2>3, SeqStepsWrites DEF TypeOK
  <2>5. BankInv'
    BY <2>3 DEF BankInv, Banked
  <2>6. SwitchInv'
    BY <2>1, <2>3 DEF SwitchInv, Comes, ShowVal
  <2>7. BootInv' /\ AppliedInv'
    BY <2>2 DEF BootInv, AppliedInv
  <2>8. BootedInv'
    BY <2>2, <2>3 DEF BootedInv, NothingOld
  <2> QED
    BY <2>3, <2>4, <2>5, <2>6, <2>7, <2>8
<1>5. CASE SwitchDone
  <2>1. op = "switch" /\ todo = <<>> /\ Len(todo) = 0
    BY <1>5, EmptySeq DEF SwitchDone
  <2>2. \A r \in ShowRegs : regs[r] = ShowVal(target, r)
    BY <2>1, Came DEF SwitchInv
  <2>3. TypeOK'
    BY <1>5 DEF SwitchDone, TypeOK, Writes
  <2>4. BankInv' /\ BootInv' /\ SwitchInv' /\ BootedInv'
    BY <1>5, <2>1 DEF SwitchDone, BankInv, BootInv, SwitchInv, BootedInv, NothingOld
  <2>5. AppliedInv'
    BY <1>5, <2>2 DEF SwitchDone, AppliedInv, ShowVal
  <2> QED
    BY <1>5, <2>3, <2>4, <2>5 DEF SwitchDone
<1>6. CASE Restart
  <2>1. todo' \in Seq(Steps) /\ Len(todo') = 0
    BY <1>6, EmptySeq DEF Restart
  <2>2. /\ regs' \in [Regs -> Values] /\ bank' \in Banks
        /\ \A i \in DOMAIN todo' : todo'[i] \in Writes
    BY <1>6, <2>1, SeqStepsWrites DEF Restart, TypeOK, Values
  <2>3. TypeOK'
    BY <1>6, <2>2, SensorAssumption DEF Restart, TypeOK
  <2> QED
    BY <1>6, <2>1, <2>3 DEF Restart, BankInv, BootInv, SwitchInv, BootedInv, AppliedInv
<1>7. CASE UNCHANGED vars
  <2>1. TypeOK'
    BY <1>7 DEF vars, TypeOK, Writes
  <2>2. BankInv' /\ BootInv' /\ SwitchInv'
    BY <1>7 DEF vars, BankInv, BootInv, SwitchInv, Comes, NothingOld, ShowVal
  <2>3. BootedInv' /\ AppliedInv'
    BY <1>7 DEF vars, BootedInv, AppliedInv, NothingOld, ShowVal
  <2> QED
    BY <1>7, <2>1, <2>2, <2>3 DEF vars
<1> QED
  BY <1>1, <1>2, <1>3, <1>4, <1>5, <1>6, <1>7

(* The inductive invariant of registers and of what is still to be done.   *)
THEOREM Invariant == Spec => []IInv
<1>1. IInv /\ [Next]_vars => IInv'
  BY InvWrite, InvFails, InvControl DEF Next
<1> QED
  BY <1>1, InvInit, PTL DEF Spec

(* Type correctness, for any resolutions: no register gets anything but a  *)
(* value, in particular no sensor reset lands in the DSP bank.             *)
THEOREM TypeCorrect == Spec => []TypeOK
<1>1. IInv => TypeOK
  BY DEF IInv
<1> QED
  BY Invariant, <1>1, PTL

(* Every write finds its bank selected, wherever a table broke off and     *)
(* whatever a reset has interrupted.                                       *)
THEOREM WritesInTheirBank == Spec => []InItsBank
<1>1. IInv => InItsBank
  <2> SUFFICES ASSUME IInv, todo # <<>>, Head(todo).reg # "BANK_SEL"
               PROVE  bank = BankOf(Head(todo).reg)
    BY DEF InItsBank
  <2>1. Head(todo) = todo[1] /\ 1 \in 1 .. Len(todo)
    BY EmptySeq DEF IInv
  <2> QED
    BY <2>1 DEF IInv, BankInv, Selected, IsSel
<1> QED
  BY Invariant, <1>1, PTL

(* After a boot that succeeded a call that returned 0 leaves the sensor    *)
(* delivering the resolution it reports, what only the boot sets included; *)
(* after one that broke off it has written its own part.                   *)
THEOREM AppliedIsConfigured == Spec => []Configured
<1>1. ASSUME IInv, applied PROVE Shows(current_res)
  BY <1>1, ShowFacts DEF IInv, AppliedInv
<1>2. ASSUME IInv, booted PROVE UxgaSensor
  BY <1>2 DEF IInv, BootedInv, BootRegs, BootVal, UxgaSensor
<1>3. IInv => Configured
  BY <1>1, <1>2 DEF Configured, Delivers
<1> QED
  BY Invariant, <1>3, PTL

(* What the boot has set, no switch undoes.                                *)
THEOREM BootSettingsLast == Spec => []BootLasts
<1>1. IInv => BootLasts
  BY DEF IInv, BootedInv, BootLasts, UxgaSensor, NothingOld, BootRegs, BootVal
<1> QED
  BY Invariant, <1>1, PTL
-----------------------------------------------------------------------------
(* The sensor as the rest of the program sees it: the steps of a switch,   *)
(* by their place in camera_set_resolution, and what the boot writes.      *)
JpegRegNames  == {"RESET", "IMAGE_MODE", "tuning"}
ClockRegNames == {"CLKRC", "R_DVP_SP", "QS"}
SeenRegs      == WindowRegNames \cup {"QS"}

IsStep(w, k, r) ==
    \/ IsSel(w)
    \/ k \in 1 .. 4 /\ w.reg \in WindowRegNames /\ w.val = r
    \/ k \in 5 .. 9 /\ w.reg \in JpegRegNames
    \/ k \in 10 .. 15 /\ w.reg \in ClockRegNames /\ (w.reg = "QS" => w.val = r)

(* s is what is left of a switch to r.                                     *)
IsRest(s, r) ==
    /\ Len(s) <= 15
    /\ \A i \in 1 .. Len(s) : IsStep(s[i], 15 - Len(s) + i, r)

OnlyQvga(s) == \A i \in 1 .. Len(s) : s[i].reg \in SeenRegs => s[i].val = Qvga

PlaceInv ==
    /\ op = "switch" => IsRest(todo, target)
    /\ op = "boot" => OnlyQvga(todo)
    /\ op \in {"off", "probe", "boot"} =>
          ~applied /\ \A r \in SeenRegs : regs[r] \in {"old", "reset", Qvga}

LEMMA SwitchPlaces ==
    ASSUME NEW r \in Res
    PROVE  Len(camera_set_resolution(r)) = 15 /\ IsRest(camera_set_resolution(r), r)
<1> DEFINE a == WindowRegs(r)
           b == JpegRegs
           c == JpegSettings(r)
           d == a \o b
           s == d \o c
<1>1. a \in Seq(Steps) /\ b \in Seq(Steps) /\ c \in Seq(Steps)
  BY TableWindow, TableJpeg, TableSettings
<1>2. Len(a) = 4 /\ \A i \in 1 .. 4 : IsStep(a[i], i, r)
  <2>1. /\ Len(a) = 4 /\ a[1] = Sel("dsp") /\ a[2] = Set("ZMOW", r)
        /\ a[3] = Set("ZMOH", r) /\ a[4] = Set("ZMHH", r)
    BY DEF WindowRegs
  <2> HIDE DEF a
  <2> QED
    BY <2>1 DEF IsStep, IsSel, Sel, Set, WindowRegNames
<1>3. Len(b) = 5 /\ \A i \in 1 .. 5 : IsStep(b[i], i + 4, r)
  <2>1. /\ Len(b) = 5 /\ b[1] = Sel("dsp") /\ b[2] = Set("RESET", "held")
        /\ b[3] = Set("IMAGE_MODE", "jpeg") /\ b[4] = Set("tuning", "jpeg")
        /\ b[5] = Set("RESET", "released")
    BY DEF JpegRegs
  <2> HIDE DEF b
  <2> QED
    BY <2>1 DEF IsStep, IsSel, Sel, Set, JpegRegNames
<1>4. Len(c) = 6 /\ \A i \in 1 .. 6 : IsStep(c[i], i + 9, r)
  <2>1. /\ Len(c) = 6 /\ c[1] = Sel("sensor") /\ c[2] = Set("CLKRC", "full")
        /\ c[3] = Sel("dsp") /\ c[4] = Set("R_DVP_SP", "div8")
        /\ c[5] = Sel("dsp") /\ c[6] = Set("QS", r)
    BY DEF JpegSettings
  <2> HIDE DEF c
  <2> QED
    BY <2>1 DEF IsStep, IsSel, Sel, Set, ClockRegNames
<1> HIDE DEF a, b, c
<1>5. /\ d \in Seq(Steps) /\ Len(d) = 9
      /\ \A i \in 1 .. 9 : d[i] = IF i <= 4 THEN a[i] ELSE b[i - 4]
  <2>1. /\ d \in Seq(Steps) /\ Len(d) = Len(a) + Len(b)
        /\ \A i \in 1 .. Len(a) + Len(b) : d[i] = IF i <= Len(a) THEN a[i] ELSE b[i - Len(a)]
    BY <1>1, ConcatProperties
  <2> QED
    BY <1>2, <1>3, <2>1
<1> HIDE DEF d
<1>6. /\ Len(s) = 15
      /\ \A i \in 1 .. 15 : s[i] = IF i <= 9 THEN d[i] ELSE c[i - 9]
  <2>1. /\ Len(s) = Len(d) + Len(c)
        /\ \A i \in 1 .. Len(d) + Len(c) : s[i] = IF i <= Len(d) THEN d[i] ELSE c[i - Len(d)]
    BY <1>1, <1>5, ConcatProperties
  <2> QED
    BY <1>4, <1>5, <2>1
<1>7. s = camera_set_resolution(r)
  BY DEF camera_set_resolution, a, b, c, d
<1> HIDE DEF s
<1>8. ASSUME NEW i \in 1 .. 15 PROVE IsStep(s[i], i, r)
  <2>1. CASE i \in 1 .. 4
    BY <1>2, <1>5, <1>6, <2>1
  <2>2. CASE i \in 5 .. 9
    <3>1. i - 4 \in 1 .. 5 /\ (i - 4) + 4 = i /\ s[i] = b[i - 4]
      BY <1>5, <1>6, <2>2
    <3>2. IsStep(b[i - 4], (i - 4) + 4, r)
      BY <1>3, <3>1
    <3> QED
      BY <3>1, <3>2
  <2>3. CASE i \in 10 .. 15
    <3>1. i - 9 \in 1 .. 6 /\ (i - 9) + 9 = i /\ s[i] = c[i - 9]
      BY <1>6, <2>3
    <3>2. IsStep(c[i - 9], (i - 9) + 9, r)
      BY <1>4, <3>1
    <3> QED
      BY <3>1, <3>2
  <2> QED
    BY <2>1, <2>2, <2>3
<1>9. IsRest(s, r)
  <2>1. \A i \in 1 .. 15 : 15 - 15 + i = i
    OBVIOUS
  <2> QED
    BY <1>6, <1>8, <2>1 DEF IsRest
<1> QED
  BY <1>6, <1>7, <1>9

(* Sequences that write nothing but QVGA, one after the other.             *)
LEMMA JoinQvga ==
    ASSUME NEW s \in Seq(Steps), NEW t \in Seq(Steps), OnlyQvga(s), OnlyQvga(t)
    PROVE  s \o t \in Seq(Steps) /\ OnlyQvga(s \o t)
<1> DEFINE u == s \o t
<1>1. /\ u \in Seq(Steps)
      /\ Len(u) = Len(s) + Len(t) /\ Len(s) \in Nat /\ Len(t) \in Nat
      /\ \A i \in 1 .. Len(s) + Len(t) : u[i] = IF i <= Len(s) THEN s[i] ELSE t[i - Len(s)]
  BY ConcatProperties, LenProperties
<1> HIDE DEF u
<1>2. ASSUME NEW i \in 1 .. Len(u), u[i].reg \in SeenRegs PROVE u[i].val = Qvga
  <2>1. CASE i <= Len(s)
    BY <1>1, <1>2, <2>1 DEF OnlyQvga
  <2>2. CASE ~(i <= Len(s))
    <3>1. i - Len(s) \in 1 .. Len(t) /\ u[i] = t[i - Len(s)]
      BY <1>1, <2>2
    <3> QED
      BY <1>2, <3>1 DEF OnlyQvga
  <2> QED
    BY <2>1, <2>2
<1>3. OnlyQvga(u)
  BY <1>2 DEF OnlyQvga
<1> QED
  BY <1>1, <1>3 DEF u

LEMMA BootQvga == OnlyQvga(camera_configure_jpeg_qvga)
<1> DEFINE s1 == SoftwareReset \o DefaultRegs
           s2 == s1 \o UxgaRegs
           s3 == s2 \o WindowRegs(Qvga)
           s4 == s3 \o JpegRegs
           s5 == s4 \o JpegSettings(Qvga)
           s6 == s5 \o ExposureSettings
<1>1. /\ SoftwareReset \in Seq(Steps) /\ DefaultRegs \in Seq(Steps) /\ UxgaRegs \in Seq(Steps)
      /\ WindowRegs(Qvga) \in Seq(Steps) /\ JpegRegs \in Seq(Steps)
      /\ JpegSettings(Qvga) \in Seq(Steps) /\ ExposureSettings \in Seq(Steps)
  BY TableReset, TableDefault, TableUxga, TableWindow, TableJpeg, TableSettings,
     TableExposure, SensorAssumption
<1>2. /\ OnlyQvga(SoftwareReset) /\ OnlyQvga(DefaultRegs) /\ OnlyQvga(UxgaRegs)
      /\ OnlyQvga(WindowRegs(Qvga)) /\ OnlyQvga(JpegRegs)
      /\ OnlyQvga(JpegSettings(Qvga)) /\ OnlyQvga(ExposureSettings)
  <2> USE DEF OnlyQvga, Sel, Set, SeenRegs, WindowRegNames
  <2>1. OnlyQvga(SoftwareReset)
    BY DEF SoftwareReset
  <2>2. OnlyQvga(DefaultRegs)
    BY DEF DefaultRegs
  <2>3. OnlyQvga(UxgaRegs)
    BY DEF UxgaRegs
  <2>4. OnlyQvga(WindowRegs(Qvga))
    BY DEF WindowRegs
  <2>5. OnlyQvga(JpegRegs)
    BY DEF JpegRegs
  <2>6. OnlyQvga(JpegSettings(Qvga))
    BY DEF JpegSettings
  <2>7. OnlyQvga(ExposureSettings)
    BY DEF ExposureSettings
  <2> QED
    BY <2>1, <2>2, <2>3, <2>4, <2>5, <2>6, <2>7
<1>3. s1 \in Seq(Steps) /\ OnlyQvga(s1)
  BY <1>1, <1>2, JoinQvga
<1>4. s2 \in Seq(Steps) /\ OnlyQvga(s2)
  BY <1>1, <1>2, <1>3, JoinQvga
<1>5. s3 \in Seq(Steps) /\ OnlyQvga(s3)
  BY <1>1, <1>2, <1>4, JoinQvga
<1>6. s4 \in Seq(Steps) /\ OnlyQvga(s4)
  BY <1>1, <1>2, <1>5, JoinQvga
<1>7. s5 \in Seq(Steps) /\ OnlyQvga(s5)
  BY <1>1, <1>2, <1>6, JoinQvga
<1>8. OnlyQvga(s6)
  BY <1>1, <1>2, <1>7, JoinQvga
<1> QED
  BY <1>8 DEF camera_configure_jpeg_qvga

(* What the next write does to a register the rest of the program sees.    *)
LEMMA SeenEffect ==
    ASSUME IInv, todo # <<>>, Effect(Head(todo))
    PROVE  \/ regs' = regs
           \/ IsReset(todo[1]) /\ \A r \in Regs : regs'[r] = "reset"
           \/ /\ ~IsSel(todo[1]) /\ regs' = [regs EXCEPT ![todo[1].reg] = todo[1].val]
              /\ todo[1].reg \in Regs /\ todo[1].val # "SRST"
<1> USE DEF IInv
<1>1. CASE IsSel(todo[1])
  BY <1>1, EffectFacts
<1>2. CASE IsReset(todo[1])
  BY <1>2, EffectFacts
<1>3. CASE ~IsSel(todo[1]) /\ ~IsReset(todo[1])
  <2>1. todo[1] \in Steps /\ regs' = [regs EXCEPT ![todo[1].reg] = todo[1].val]
    BY <1>3, EffectFacts
  <2>2. todo[1].reg \in Regs
    BY <1>3, <2>1, StepsFacts
  <2> QED
    BY <1>3, <2>1, <2>2 DEF IsReset
<1> QED
  BY <1>1, <1>2, <1>3

LEMMA PlaceWrite ==
    ASSUME IInv, PlaceInv, todo # <<>>, op = "boot", Effect(Head(todo))
    PROVE  \A r \in SeenRegs : regs'[r] \in {"old", "reset", Qvga}
<1>1. SeenRegs \subseteq Regs /\ 1 \in 1 .. Len(todo) /\ regs \in [Regs -> Values]
  BY TailFacts DEF SeenRegs, WindowRegNames, Regs, DspRegs, IInv, TypeOK
<1>2. todo[1].reg \in SeenRegs => todo[1].val = Qvga
  BY <1>1 DEF PlaceInv, OnlyQvga
<1>3. \A r \in SeenRegs : regs[r] \in {"old", "reset", Qvga}
  BY DEF PlaceInv
<1> QED
  BY <1>1, <1>2, <1>3, SeenEffect

LEMMA PlaceInit == Init => PlaceInv
BY DEF Init, PlaceInv, SeenRegs, WindowRegNames, Regs, DspRegs

LEMMA PlaceNext == ASSUME IInv, PlaceInv, [Next]_vars PROVE PlaceInv'
<1>1. CASE PowerUp
  BY <1>1 DEF PowerUp, PlaceInv
<1>2. CASE camera_sccb_probe
  BY <1>2, BootQvga DEF camera_sccb_probe, PlaceInv
<1>3. CASE ov2640_write_reg
  <2>1. /\ todo # <<>> /\ Effect(Head(todo)) /\ todo' = Tail(todo)
        /\ op \in {"boot", "switch"} /\ UNCHANGED <<op, target, applied>>
    BY <1>3 DEF ov2640_write_reg, IInv, TypeOK
  <2>2. /\ Len(todo') = Len(todo) - 1 /\ Len(todo) \in Nat \ {0}
        /\ \A i \in 1 .. Len(todo') : todo'[i] = todo[i + 1] /\ i + 1 \in 1 .. Len(todo)
    BY <2>1, TailFacts DEF IInv
  <2>3. CASE op = "boot"
    <3>1. OnlyQvga(todo')
      BY <2>2, <2>3 DEF PlaceInv, OnlyQvga
    <3> QED
      BY <2>1, <2>3, <3>1, PlaceWrite DEF PlaceInv
  <2>4. CASE op = "switch"
    <3>1. /\ Len(todo) <= 15
          /\ \A i \in 1 .. Len(todo) : IsStep(todo[i], 15 - Len(todo) + i, target)
      BY <2>4 DEF PlaceInv, IsRest
    <3>2. ASSUME NEW i \in 1 .. Len(todo')
          PROVE  IsStep(todo'[i], 15 - Len(todo') + i, target)
      <4>1. 15 - Len(todo) + (i + 1) = 15 - Len(todo') + i
        BY <2>2
      <4>2. IsStep(todo[i + 1], 15 - Len(todo) + (i + 1), target)
        BY <2>2, <3>1
      <4> QED
        BY <2>2, <4>1, <4>2
    <3>3. Len(todo') <= 15
      BY <2>2, <3>1
    <3>4. IsRest(todo', target)
      BY <3>2, <3>3 DEF IsRest
    <3> QED
      BY <2>1, <2>4, <3>4 DEF PlaceInv
  <2> QED
    BY <2>1, <2>3, <2>4
<1>4. CASE WriteFails
  BY <1>4 DEF WriteFails, PlaceInv
<1>5. CASE BootDone
  BY <1>5 DEF BootDone, PlaceInv
<1>6. CASE SetResolution
  <2>1. PICK r \in Res : target' = r /\ todo' = camera_set_resolution(r)
    BY <1>6 DEF SetResolution
  <2>2. IsRest(todo', target')
    BY <2>1, SwitchPlaces
  <2> QED
    BY <1>6, <2>2 DEF SetResolution, PlaceInv
<1>7. CASE SwitchDone
  BY <1>7 DEF SwitchDone, PlaceInv
<1>8. CASE Restart
  BY <1>8 DEF Restart, PlaceInv, SeenRegs, WindowRegNames, Regs, DspRegs
<1>9. CASE UNCHANGED vars
  BY <1>9 DEF vars, PlaceInv
<1> QED
  BY <1>1, <1>2, <1>3, <1>4, <1>5, <1>6, <1>7, <1>8, <1>9 DEF Next

LEMMA PlaceAlways == Spec => [](IInv /\ PlaceInv)
<1>1. Init => IInv /\ PlaceInv
  BY InvInit, PlaceInit
<1>2. IInv /\ PlaceInv /\ [Next]_vars => (IInv /\ PlaceInv)'
  <2>1. IInv /\ [Next]_vars => IInv'
    BY InvWrite, InvFails, InvControl DEF Next
  <2> QED
    BY <2>1, PlaceNext
<1> QED
  BY <1>1, <1>2, PTL DEF Spec
-----------------------------------------------------------------------------
(* A part of a switch is complete when the next begins: nothing that is    *)
(* left touches it, so what comes is there.                                *)
LEMMA RestSettles ==
    ASSUME NEW s \in Seq(Steps), NEW t \in Res, IsRest(s, t), NEW v
    PROVE  /\ Len(s) <= 11 => \A r \in WindowRegNames : ~Settles(s, r, v)
           /\ Len(s) <= 6 => ~Settles(s, "RESET", v)
<1>1. Len(s) \in Nat
  BY LenProperties
<1>2. ASSUME NEW r \in WindowRegNames \cup {"RESET"}, NEW i \in 1 .. Len(s), s[i] = Set(r, v)
      PROVE  /\ r \in WindowRegNames => 15 - Len(s) + i \in 1 .. 4
             /\ r = "RESET" => 15 - Len(s) + i \in 5 .. 9
  <2>1. s[i].reg = r /\ ~IsSel(s[i])
    BY <1>2 DEF Set, IsSel, WindowRegNames
  <2>2. IsStep(s[i], 15 - Len(s) + i, t)
    BY DEF IsRest
  <2> QED
    BY <2>1, <2>2 DEF IsStep, WindowRegNames, JpegRegNames, ClockRegNames
<1>3. ASSUME Len(s) <= 11, NEW r \in WindowRegNames, Settles(s, r, v) PROVE FALSE
  <2>1. PICK i \in 1 .. Len(s) : s[i] = Set(r, v)
    BY <1>3 DEF Settles
  <2>2. 15 - Len(s) + i \in 1 .. 4
    BY <1>2, <2>1
  <2> QED
    BY <1>1, <1>3, <2>2
<1>4. ASSUME Len(s) <= 6, Settles(s, "RESET", v) PROVE FALSE
  <2>1. PICK i \in 1 .. Len(s) : s[i] = Set("RESET", v)
    BY <1>4 DEF Settles
  <2>2. 15 - Len(s) + i \in 5 .. 9
    BY <1>2, <2>1
  <2> QED
    BY <1>1, <1>4, <2>2
<1> QED
  BY <1>3, <1>4

(* The same of the state after a write.                                    *)
LEMMA PartDone ==
    ASSUME IInv', PlaceInv', op' = "switch"
    PROVE  /\ Len(todo') <= 11 => Window' = target'
           /\ Len(todo') <= 6 => regs'["RESET"] = "released"
<1>1. /\ todo' \in Seq(Steps) /\ IsRest(todo', target') /\ target' \in Res
      /\ \A r \in ShowRegs :
           \/ Settles(todo', r, ShowVal(target', r)) 
           \/ regs'[r] = ShowVal(target', r)
  BY DEF IInv, PlaceInv, SwitchInv, Comes, TypeOK, ShowVal
<1>2. ASSUME Len(todo') <= 11 PROVE Window' = target'
  <2>1. \A r \in WindowRegNames : r \in ShowRegs /\ ShowVal(target', r) = target'
    BY DEF WindowRegNames, ShowRegs, ShowVal
  <2>2. \A r \in WindowRegNames : regs'[r] = target'
    BY <1>1, <1>2, <2>1, RestSettles
  <2> QED
    BY <1>1, <2>2 DEF Window, WindowRegNames
<1>3. ASSUME Len(todo') <= 6 PROVE regs'["RESET"] = "released"
  <2>1. "RESET" \in ShowRegs /\ ShowVal(target', "RESET") = "released"
    BY DEF ShowRegs, ShowVal
  <2> QED
    BY <1>1, <1>3, <2>1, RestSettles
<1> QED
  BY <1>2, <1>3

(* A write of a switch, by the part it belongs to.                         *)
LEMMA PartWrite ==
    ASSUME IInv, PlaceInv, todo # <<>>, op = "switch",
           Effect(Head(todo)) \/ regs' = regs
    PROVE  \/ /\ Len(todo) \in 12 .. 15
              /\ Window' \in {Window, "mixed", target}
              /\ Quality' = Quality /\ regs'["RESET"] = regs["RESET"]
           \/ /\ Len(todo) \in 7 .. 11
              /\ Window' = Window /\ Quality' = Quality
           \/ /\ Len(todo) \in 1 .. 6
              /\ Window' = Window /\ Quality' \in {Quality, target}
              /\ regs'["RESET"] = regs["RESET"]
<1> DEFINE w == todo[1]
           n == Len(todo)
<1>1. /\ n \in 1 .. 15 /\ IsStep(w, 16 - n, target) /\ w \in Steps /\ target \in Res
      /\ SeenRegs \subseteq Regs /\ "RESET" \in Regs
  <2>1. n \in Nat \ {0} /\ n <= 15 /\ 1 \in 1 .. n
    BY TailFacts DEF IInv, PlaceInv, IsRest
  <2>2. IsStep(w, 15 - n + 1, target) /\ 15 - n + 1 = 16 - n
    BY <2>1 DEF PlaceInv, IsRest
  <2>3. w \in Steps
    BY <2>1, ElementOfSeq DEF IInv
  <2>4. target \in Res /\ SeenRegs \subseteq Regs /\ "RESET" \in Regs
    BY DEF IInv, TypeOK, SeenRegs, WindowRegNames, Regs, DspRegs
  <2> HIDE DEF w, n
  <2>5. n \in 1 .. 15
    BY <2>1
  <2> QED
    BY <2>2, <2>3, <2>4, <2>5
<1>2. ~IsReset(w)
  BY <1>1, StepsFacts DEF IsStep, IsSel, WindowRegNames, JpegRegNames, ClockRegNames
<1>3. \/ regs' = regs
      \/ ~IsSel(w) /\ w.reg \in Regs /\ regs' = [regs EXCEPT ![w.reg] = w.val]
  BY <1>2, SeenEffect
<1>4. regs \in [Regs -> Values]
  BY DEF IInv, TypeOK
<1>5. \A r \in Regs : regs'[r] = IF regs' # regs /\ r = w.reg THEN w.val ELSE regs[r]
  BY <1>3, <1>4
<1> HIDE DEF w, n
<1>6. ASSUME \A r \in WindowRegNames : regs'[r] = regs[r] PROVE Window' = Window
  BY <1>6 DEF Window, WindowRegNames
<1>7. ASSUME regs'["QS"] = regs["QS"] PROVE Quality' = Quality
  BY <1>7 DEF Quality
<1>8. CASE regs' = regs
  <2>1. n \in 12 .. 15 \/ n \in 7 .. 11 \/ n \in 1 .. 6
    BY <1>1
  <2> QED
    BY <1>6, <1>7, <1>8, <2>1 DEF n
<1>9. CASE regs' # regs /\ n \in 12 .. 15
  <2>1. w.reg \in WindowRegNames /\ w.val = target
    BY <1>1, <1>3, <1>9 DEF IsStep
  <2>2. regs'["QS"] = regs["QS"] /\ regs'["RESET"] = regs["RESET"]
    BY <1>1, <1>5, <2>1 DEF SeenRegs, WindowRegNames
  <2>3. Window' \in {"mixed", target}
    <3>1. regs'[w.reg] = target
      BY <1>1, <1>5, <1>9, <2>1 DEF SeenRegs
    <3> QED
      BY <2>1, <3>1 DEF Window, WindowRegNames
  <2> QED
    BY <1>7, <1>9, <2>2, <2>3 DEF n
<1>10. CASE regs' # regs /\ n \in 7 .. 11
  <2>1. w.reg \in JpegRegNames
    BY <1>1, <1>3, <1>10 DEF IsStep
  <2>2. \A r \in SeenRegs : regs'[r] = regs[r]
    BY <1>1, <1>5, <2>1 DEF SeenRegs, WindowRegNames, JpegRegNames
  <2> QED
    BY <1>6, <1>7, <1>10, <2>2 DEF n, SeenRegs
<1>11. CASE regs' # regs /\ n \in 1 .. 6
  <2>1. w.reg \in ClockRegNames /\ (w.reg = "QS" => w.val = target)
    BY <1>1, <1>3, <1>11 DEF IsStep
  <2>2. (\A r \in WindowRegNames : regs'[r] = regs[r]) /\ regs'["RESET"] = regs["RESET"]
    BY <1>1, <1>5, <2>1 DEF SeenRegs, WindowRegNames, ClockRegNames
  <2>3. regs'["QS"] \in {regs["QS"], target}
    BY <1>1, <1>5, <2>1 DEF SeenRegs
  <2>4. Quality' \in {Quality, target}
    BY <1>1, <2>3 DEF Quality
  <2> QED
    BY <1>6, <1>11, <2>2, <2>4 DEF n
<1> QED
  <2>1. n \in 12 .. 15 \/ n \in 7 .. 11 \/ n \in 1 .. 6
    BY <1>1
  <2> QED
    BY <1>8, <1>9, <1>10, <1>11, <2>1

LEMMA PartValue ==
    /\ \A k \in 12 .. 15 : Part(k) = "window"
    /\ \A k \in 7 .. 11 : Part(k) = "jpeg"
    /\ \A k \in 0 .. 6 : Part(k) = "clock"
<1>1. \A k \in 12 .. 15 : k > 11
  OBVIOUS
<1>2. \A k \in 7 .. 11 : ~(k > 11) /\ k > 6
  OBVIOUS
<1>3. \A k \in 0 .. 6 : ~(k > 11) /\ ~(k > 6)
  OBVIOUS
<1> QED
  BY <1>1, <1>2, <1>3, Zenon DEF Part

LEMMA StageValue ==
    /\ op \in {"off", "probe", "boot"} => Stage = "boot"
    /\ op = "idle" => Stage = "idle"
    /\ op = "switch" => Stage = Part(Len(todo))
BY DEF Stage

LEMMA StageNext ==
    /\ op' \in {"off", "probe", "boot"} => Stage' = "boot"
    /\ op' = "idle" => Stage' = "idle"
    /\ op' = "switch" => Stage' = Part(Len(todo'))
BY DEF Stage

(* While the boot goes on, the registers show nothing but QVGA.            *)
LEMMA BootShows ==
    ASSUME \A r \in SeenRegs : regs'[r] \in {"old", "reset", Qvga}
    PROVE  Window' \in {"mixed", Qvga} /\ Quality' \in {"mixed", Qvga}
BY SensorAssumption DEF Window, Quality, SeenRegs, WindowRegNames

LEMMA NothingShows ==
    ASSUME \A r \in SeenRegs \cup {"RESET"} : regs[r] = "old"
    PROVE  Window = "mixed" /\ Quality = "mixed" /\ regs["RESET"] # "held"
BY SensorAssumption DEF Window, Quality, SeenRegs, WindowRegNames

LEMMA NothingShowsNext ==
    ASSUME \A r \in SeenRegs \cup {"RESET"} : regs'[r] = "old"
    PROVE  Window' = "mixed" /\ Quality' = "mixed" /\ regs'["RESET"] # "held"
BY SensorAssumption DEF Window, Quality, SeenRegs, WindowRegNames

(* After a call that returned 0 they show what it has configured.          *)
LEMMA AppliedShows ==
    ASSUME IInv', applied'
    PROVE  Window' = current_res' /\ Quality' = current_res' /\ regs'["RESET"] # "held"
<1>1. \A r \in ShowRegs : regs'[r] = ShowVal(current_res', r)
  BY DEF IInv, AppliedInv, ShowVal
<1>2. current_res' \in Res
  BY DEF IInv, TypeOK
<1>3. /\ \A r \in SeenRegs : regs'[r] = current_res'
      /\ regs'["RESET"] = "released"
  BY <1>1 DEF ShowRegs, ShowVal, SeenRegs, WindowRegNames
<1> QED
  BY <1>2, <1>3 DEF Window, Quality, SeenRegs, WindowRegNames

(* The steps of the boot, and the reset.                                   *)
LEMMA ConfigBoot ==
    ASSUME IInv, PlaceInv, PlaceInv',
           UNCHANGED <<target, current_res, applied>>,
           op \in {"off", "probe", "boot"}, op' \in {"off", "probe", "boot", "idle"},
           \A r \in SeenRegs : regs'[r] \in {"old", "reset", Qvga}
    PROVE  Config!Next
<1>1. Stage = "boot" /\ Stage' \in {"boot", "idle"}
  BY StageValue, StageNext
<1>2. Window' \in {"mixed", Qvga} /\ Quality' \in {"mixed", Qvga}
  BY BootShows
<1>3. (regs'["RESET"] = "held") \in BOOLEAN
  OBVIOUS
<1>4. op # "switch" /\ op' # "switch"
  OBVIOUS
<1>5. Config!Boot
  BY <1>1, <1>2, <1>3, <1>4 DEF Config!Boot
<1> QED
  BY <1>5 DEF Config!Next

(* The writes of a switch.                                                 *)
LEMMA ConfigWrite ==
    ASSUME IInv, PlaceInv, IInv', PlaceInv', op = "switch", ov2640_write_reg
    PROVE  Config!Next
<1> DEFINE n == Len(todo)
           m == Len(todo')
<1>1. /\ todo # <<>> /\ Effect(Head(todo)) /\ op' = "switch" /\ target' = target
      /\ UNCHANGED <<current_res, applied>>
      /\ m = n - 1
  BY TailFacts DEF ov2640_write_reg, IInv
<1>2. (regs["RESET"] = "held") \in BOOLEAN /\ (regs'["RESET"] = "held") \in BOOLEAN
  OBVIOUS
<1>3. Stage = Part(n) /\ Stage' = Part(m)
  BY <1>1, StageValue, StageNext
<1>4. CASE /\ n \in 12 .. 15
           /\ Window' \in {Window, "mixed", target}
           /\ Quality' = Quality /\ regs'["RESET"] = regs["RESET"]
  <2>1. m \in 12 .. 15 \/ (m \in 7 .. 11 /\ m <= 11)
    <3> HIDE DEF n, m
    <3> QED
      BY <1>1, <1>4
  <2>2. Stage = "window"
    BY <1>3, <1>4, PartValue
  <2>3. CASE m \in 12 .. 15
    <3>1. Stage' = "window"
      BY <1>3, <2>3, PartValue
    <3>2. Config!Window
      BY <1>1, <1>4, <2>2, <3>1 DEF Config!Window, Config!Partly
    <3> QED
      BY <3>2 DEF Config!Next
  <2>4. CASE m \in 7 .. 11 /\ m <= 11
    <3>1. Stage' = "jpeg"
      BY <1>3, <2>4, PartValue
    <3>2. Window' = target
      BY <1>1, <2>4, PartDone
    <3>3. Config!Window
      BY <1>1, <1>4, <2>2, <3>1, <3>2 DEF Config!Window, Config!Wholly
    <3> QED
      BY <3>3 DEF Config!Next
  <2> QED
    BY <2>1, <2>3, <2>4
<1>5. CASE n \in 7 .. 11 /\ Window' = Window /\ Quality' = Quality
  <2>1. m \in 7 .. 11 \/ (m \in 0 .. 6 /\ m <= 6)
    <3> HIDE DEF n, m
    <3> QED
      BY <1>1, <1>5
  <2>2. Stage = "jpeg"
    BY <1>3, <1>5, PartValue
  <2>3. CASE m \in 7 .. 11
    <3>1. Stage' = "jpeg"
      BY <1>3, <2>3, PartValue
    <3>2. Config!Jpeg
      BY <1>1, <1>2, <1>5, <2>2, <3>1 DEF Config!Jpeg, Config!Partly
    <3> QED
      BY <3>2 DEF Config!Next
  <2>4. CASE m \in 0 .. 6 /\ m <= 6
    <3>1. Stage' = "clock"
      BY <1>3, <2>4, PartValue
    <3>2. regs'["RESET"] # "held"
      BY <1>1, <2>4, PartDone
    <3>3. Config!Jpeg
      BY <1>1, <1>5, <2>2, <3>1, <3>2 DEF Config!Jpeg, Config!Wholly
    <3> QED
      BY <3>3 DEF Config!Next
  <2> QED
    BY <2>1, <2>3, <2>4
<1>6. CASE /\ n \in 1 .. 6
           /\ Window' = Window /\ Quality' \in {Quality, target}
           /\ regs'["RESET"] = regs["RESET"]
  <2>1. m \in 0 .. 6 /\ n \in 0 .. 6
    <3> HIDE DEF n, m
    <3> QED
      BY <1>1, <1>6
  <2>2. Stage = "clock" /\ Stage' = "clock"
    BY <1>3, <2>1, PartValue
  <2>3. Config!Clock
    BY <1>1, <1>6, <2>2 DEF Config!Clock, Config!Partly
  <2> QED
    BY <2>3 DEF Config!Next
<1> QED
  BY <1>1, <1>4, <1>5, <1>6, PartWrite

LEMMA ConfigFails ==
    ASSUME IInv, PlaceInv, op = "switch", WriteFails
    PROVE  Config!Next
<1>1. /\ todo # <<>> /\ (Effect(Head(todo)) \/ regs' = regs)
      /\ op' = "idle" /\ UNCHANGED <<current_res, applied>>
  BY DEF WriteFails
<1>2. Stage' = "idle" /\ op' # "switch" /\ Stage = Part(Len(todo))
  BY <1>1, StageValue, StageNext
<1>3. (regs'["RESET"] = "held") \in BOOLEAN
  OBVIOUS
<1>4. CASE /\ Len(todo) \in 12 .. 15
           /\ Window' \in {Window, "mixed", target}
           /\ Quality' = Quality /\ regs'["RESET"] = regs["RESET"]
  <2>1. Stage = "window"
    BY <1>2, <1>4, PartValue
  <2>2. Config!Window
    BY <1>1, <1>2, <1>4, <2>1 DEF Config!Window, Config!Partly
  <2> QED
    BY <2>2 DEF Config!Next
<1>5. CASE Len(todo) \in 7 .. 11 /\ Window' = Window /\ Quality' = Quality
  <2>1. Stage = "jpeg"
    BY <1>2, <1>5, PartValue
  <2>2. Config!Jpeg
    BY <1>1, <1>2, <1>3, <1>5, <2>1 DEF Config!Jpeg, Config!Partly
  <2> QED
    BY <2>2 DEF Config!Next
<1>6. CASE /\ Len(todo) \in 1 .. 6
           /\ Window' = Window /\ Quality' \in {Quality, target}
           /\ regs'["RESET"] = regs["RESET"]
  <2>1. Stage = "clock"
    <3>1. Len(todo) \in 0 .. 6
      BY <1>6
    <3> QED
      BY <1>2, <3>1, PartValue
  <2>2. Config!Clock
    BY <1>1, <1>2, <1>6, <2>1 DEF Config!Clock, Config!Partly
  <2> QED
    BY <2>2 DEF Config!Next
<1> QED
  BY <1>1, <1>4, <1>5, <1>6, PartWrite

LEMMA ConfigNext ==
    ASSUME IInv, PlaceInv, IInv', PlaceInv', [Next]_vars
    PROVE  [Config!Next]_Config!vars
<1>1. CASE PowerUp
  <2>1. \A r \in SeenRegs : regs'[r] \in {"old", "reset", Qvga}
    BY <1>1 DEF PowerUp, PlaceInv
  <2> QED
    BY <1>1, <2>1, ConfigBoot DEF PowerUp
<1>2. CASE camera_sccb_probe
  <2>1. \A r \in SeenRegs : regs'[r] \in {"old", "reset", Qvga}
    BY <1>2 DEF camera_sccb_probe, PlaceInv
  <2>2. op = "probe" /\ op' \in {"boot", "idle"} /\ UNCHANGED <<target, current_res, applied>>
    BY <1>2 DEF camera_sccb_probe
  <2> QED
    BY <2>1, <2>2, ConfigBoot
<1>3. CASE (ov2640_write_reg \/ WriteFails) /\ op = "boot"
  <2>1. /\ todo # <<>> /\ (Effect(Head(todo)) \/ regs' = regs)
        /\ op' \in {"boot", "idle"} /\ UNCHANGED <<target, current_res, applied>>
    BY <1>3 DEF ov2640_write_reg, WriteFails
  <2>2. \A r \in SeenRegs : regs'[r] \in {"old", "reset", Qvga}
    <3>1. CASE regs' = regs
      BY <1>3, <3>1 DEF PlaceInv
    <3> QED
      BY <1>3, <2>1, <3>1, PlaceWrite
  <2> QED
    BY <1>3, <2>1, <2>2, ConfigBoot
<1>4. CASE (ov2640_write_reg \/ WriteFails) /\ op = "switch"
  BY <1>4, ConfigWrite, ConfigFails
<1>5. CASE BootDone
  <2>1. /\ op = "boot" /\ op' = "idle" /\ applied' = TRUE
        /\ UNCHANGED <<target, current_res>> /\ current_res = Qvga
    BY <1>5 DEF BootDone, IInv, BootedInv
  <2>2. Stage = "boot" /\ Stage' = "idle"
    BY <2>1, StageValue, StageNext
  <2>3. Window' = Qvga /\ Quality' = Qvga /\ regs'["RESET"] # "held"
    BY <2>1, AppliedShows
  <2>4. Config!Booted
    BY <2>1, <2>2, <2>3 DEF Config!Booted
  <2> QED
    BY <2>4 DEF Config!Next
<1>6. CASE SetResolution
  <2>1. /\ op = "idle" /\ op' = "switch" /\ applied' = FALSE
        /\ UNCHANGED <<regs, current_res>>
    BY <1>6 DEF SetResolution
  <2>2. target' \in Res /\ Len(todo') = 15
    BY <1>6, SwitchPlaces DEF SetResolution
  <2>3. Stage = "idle" /\ Stage' = "window"
    <3>1. Stage = "idle" /\ Stage' = Part(Len(todo'))
      BY <2>1, StageValue, StageNext
    <3>2. 15 \in 12 .. 15
      OBVIOUS
    <3> QED
      BY <2>2, <3>1, <3>2, PartValue
  <2>4. Window' = Window /\ Quality' = Quality
    BY <2>1 DEF Window, Quality
  <2>5. Config!Begin
    BY <2>1, <2>2, <2>3, <2>4 DEF Config!Begin
  <2> QED
    BY <2>5 DEF Config!Next
<1>7. CASE SwitchDone
  <2>1. /\ op = "switch" /\ Len(todo) = 0 /\ op' = "idle" /\ applied' = TRUE
        /\ current_res' = target /\ regs' = regs
    BY <1>7, EmptySeq DEF SwitchDone
  <2>2. Stage = "clock" /\ Stage' = "idle"
    <3>1. Stage = Part(Len(todo)) /\ Stage' = "idle"
      BY <2>1, StageValue, StageNext
    <3>2. 0 \in 0 .. 6
      OBVIOUS
    <3> QED
      BY <2>1, <3>1, <3>2, PartValue
  <2>3. Quality' = target /\ Window' = Window
    BY <2>1, AppliedShows DEF Window
  <2>4. Config!Switched
    BY <2>1, <2>2, <2>3 DEF Config!Switched
  <2> QED
    BY <2>4 DEF Config!Next
<1>8. CASE Restart
  <2>1. \A r \in SeenRegs \cup {"RESET"} : regs'[r] = "old"
    BY <1>8 DEF Restart, SeenRegs, WindowRegNames, Regs, DspRegs
  <2>2. op' = "off" /\ current_res' = Qvga /\ applied' = FALSE
    BY <1>8 DEF Restart
  <2>3. Stage' = "boot"
    BY <2>2, StageNext
  <2>4. Config!Restart
    BY <2>1, <2>2, <2>3, NothingShowsNext DEF Config!Restart
  <2> QED
    BY <2>4 DEF Config!Next
<1>9. CASE UNCHANGED vars
  <2>1. UNCHANGED <<regs, op, todo, target, current_res, applied>>
    BY <1>9 DEF vars
  <2>2. Window' = Window /\ Quality' = Quality /\ Stage' = Stage
    BY <2>1 DEF Window, Quality, Stage
  <2> QED
    BY <2>1, <2>2 DEF Config!vars
<1>10. ov2640_write_reg \/ WriteFails => op \in {"boot", "switch"}
  BY DEF ov2640_write_reg, WriteFails, IInv, TypeOK
<1> QED
  BY <1>1, <1>2, <1>3, <1>4, <1>5, <1>6, <1>7, <1>8, <1>9, <1>10 DEF Next

(* Write by write, the tables and sequences do what camera_config.c        *)
(* promises, for any resolutions and wherever a transfer fails.            *)
THEOREM ConfigStepsHold == Spec => ConfigSteps
<1>1. Init => Config!Init
  <2> SUFFICES ASSUME Init PROVE Config!Init
    OBVIOUS
  <2>1. /\ \A r \in SeenRegs \cup {"RESET"} : regs[r] = "old"
        /\ op = "off" /\ current_res = Qvga /\ applied = FALSE
    BY DEF Init, SeenRegs, WindowRegNames, Regs, DspRegs
  <2>2. Stage = "boot"
    BY <2>1, StageValue
  <2> QED
    BY <2>1, <2>2, NothingShows DEF Config!Init
<1>2. IInv /\ PlaceInv /\ (IInv /\ PlaceInv)' /\ [Next]_vars => [Config!Next]_Config!vars
  BY ConfigNext
<1> QED
  BY <1>1, <1>2, PlaceAlways, PTL DEF Spec, ConfigSteps, Config!Spec
=============================================================================
