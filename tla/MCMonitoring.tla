---------------------------- MODULE MCMonitoring ----------------------------
(* Two connection threads, two connections and two calls that count        *)
(* traffic: every thread can count while another one's counters are read.  *)
EXTENDS Monitoring

Ext == INSTANCE FiniteSetsExt

(* The number of units is the sum of the values.                           *)
ASSUME SumAdds ==
  \A S \in SUBSET Stats : \A f \in [S -> 0 .. 3] : Sum(f, S) = Ext!MapThenSumSet(LAMBDA s : f[s], S)
=============================================================================
