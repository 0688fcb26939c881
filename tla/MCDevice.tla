----------------------------- MODULE MCDevice ------------------------------
(* Small instances of Device. *)
EXTENDS Device

AllBoards == DOMAIN Boards
\* Steps that may fail on either bus, and what only one of them has.  Left out
\* are the steps with a known defect that would end every behaviour: on both
\* mqnic_create_res, whose error pointer is released like a resource, and on a
\* platform device a phandle without its I2C device, after which the clients are
\* put twice.
CommonFaults ==
  {"dma", "bar0", "app_bar", "ram_bar", "irq", "rb_list", "fw_id", "if_rb", "bar_size", "phc", "if",
   "if_rb_list", "if_ctrl", "eqm", "cqm", "txqm", "rxqm", "qmap", "port", "port_rb",
   "port_ctrl", "block", "block_rb", "sched", "eq", "eqn", "eq_buf", "eq_irq", "ndev", "misc", "adev"}
SafePciFaults == CommonFaults \cup
  {"enable", "regions", "alive", "irq_vec", "i2c", "mac", "mac_torn"}
SafePlatformFaults == CommonFaults \cup {"of_mac"}
============================================================================
