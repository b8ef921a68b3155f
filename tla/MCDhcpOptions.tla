---------------------------- MODULE MCDhcpOptions ----------------------------
(* Instances of DhcpOptions.  The values hold bytes that are codes of      *)
(* options themselves (255, 1, 3, 53), so that a misplaced reader is seen. *)
EXTENDS DhcpOptions

CONSTANT MaxOptions   \* bound: options in a received list

Opt(code, value) == [code |-> code, value |-> value]
MCAddress == << 53, 255, 3, 1 >>

(* What the server writes, and what a client with this code could write:   *)
(* each value set or not, and the shortest name that is too long.          *)
MCSent ==
  { [no_opt EXCEPT !.dhcp_msg = m, !.hst_name = h, !.sub_msk = s, !.srv_id = v,
                   !.rtr_id = r, !.dns_id = d, !.rnw_time = t, !.rbn_time = t,
                   !.ip_lease_time = t, !.rqt_id = q, !.clt_id = c] :
      m \in {"OFFER", "ACK", "INVALID"}, h \in {<< >>, << 255 >>, << 12, 53, 1 >>},
      s \in {Zeros(4), << 255, 255, 255, 0 >>}, v \in {Zeros(4), MCAddress},
      r \in {Zeros(4), << 192, 168, 0, 1 >>}, d \in {Zeros(4), << 8, 8, 8, 8 >>},
      t \in {Zeros(4), << 16, 39, 0, 0 >>}, q \in {Zeros(4), << 10, 0, 0, 6 >>},
      c \in {Zeros(6), << 2, 0, 0, 0, 0, 255 >>} }
  \union { [no_opt EXCEPT !.hst_name = [i \in 1 .. 254 |-> 97]] }

(* Lists of options in any order and repeated: those the reader has a case *)
(* for, a mask that is cut short, the maximum message size (57), which it  *)
(* steps over, and the parameter request list (55), which it takes for     *)
(* other options.                                                          *)
MCOptions ==
  { Opt(DHCP_MSG_OP, << 1 >>), Opt(DHCP_MSG_OP, << 3 >>), Opt(DHCP_MSG_OP, << 9 >>),
    Opt(DHCP_HST_NAME_OP, << 255, 53 >>), Opt(DHCP_CLT_ID_OP, << 1, 2, 0, 0, 0, 0, 255 >>),
    Opt(DHCP_SUB_MSK_OP, << 255, 255, 255, 0 >>), Opt(DHCP_SUB_MSK_OP, << 255, 0 >>),
    Opt(DHCP_RNW_TIME_OP, << 0, 0, 39, 16 >>),
    Opt(DHCP_RBN_TIME_OP, << 255, 0, 39, 16 >>), Opt(DHCP_IP_LEASE_TIME_OP, << 53, 1, 39, 16 >>),
    Opt(DHCP_SRV_ID_OP, << 192, 168, 0, 1 >>), Opt(DHCP_RTR_ID_OP, MCAddress \o << 10, 0, 0, 6 >>),
    Opt(DHCP_RQT_ID_OP, << 10, 0, 0, 6 >>), Opt(DHCP_DNS_OP, << 8, 8, 8, 8 >> \o MCAddress),
    Opt(57, << 2, 64 >>), Opt(55, << 1, 3, 6, 15 >>) }
MCReceived == UNION { [1 .. n -> MCOptions] : n \in 0 .. MaxOptions }
==============================================================================
