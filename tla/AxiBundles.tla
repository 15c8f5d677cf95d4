----------------------------- MODULE AxiBundles -----------------------------
(***************************************************************************)
(* The bundles of signals that the simulation test bench passes around as  *)
(* one value (axi4.h, axi4_lite.h).  Of a field the model keeps whether it *)
(* is zero: a bundle is the set of its fields that are not.                *)
(***************************************************************************)

\* axi4_master and axi4_slave
MasterFields == {"AWVALID", "AWADDR", "AWID", "AWLEN", "AWBURST", "WVALID", "WDATA", "WSTRB",
                 "WLAST", "BREADY", "ARVALID", "ARADDR", "ARID", "ARLEN", "ARBURST", "RREADY"}
SlaveFields  == {"AWREADY", "WREADY", "BVALID", "BRESP", "BID", "ARREADY",
                 "RVALID", "RDATA", "RRESP", "RID", "RLAST"}

\* axi4_lite_master and axi4_lite_slave
LiteMasterFields == {"AWVALID", "AWADDR", "WVALID", "WDATA", "WSTRB", "BREADY",
                     "ARVALID", "ARADDR", "RREADY"}
LiteSlaveFields  == {"AWREADY", "WREADY", "BVALID", "BRESP", "ARREADY", "RVALID", "RDATA", "RRESP"}

\* What the constructors leave.
ZeroMaster == {}
ZeroSlave  == {}
ZeroLiteMaster == {}
ZeroLiteSlave  == {}

\* A field in which two bundles agree.
Same(f, a, b) == f \in a <=> f \in b

\* operator ==, by which a signal decides whether it changes.
SlavesEqual(a, b) == \A f \in SlaveFields : Same(f, a, b)
LiteMastersEqual(a, b) == \A f \in LiteMasterFields : Same(f, a, b)

\* What sc_trace writes of a bundle into the wave file.
SlaveTraced(a) == {f \in SlaveFields : f \in a}
LiteMasterTraced(a) == {f \in LiteMasterFields : f \in a}
=============================================================================
