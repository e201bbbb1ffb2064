SPECIFICATION LoadSpec
CONSTANTS
  p1 = p1
  p2 = p2
  NoNode = NoNode
  Openers = {p1, p2}
  Plans <- EachFamily
  NDevs = 2
  MayFail = {"scull_region", "scull_cdev", "scullp_region", "scullp_devices",
             "scullp_cdev", "ldd_bus_type", "ldd_bus_version", "sculld_region",
             "sculld_cdev", "sculld_driver_attr", "sculld_dev_attr", "sbull_major", "sbull_devices",
             "tiny_driver", "tiny_reg", "tiny_device", "skel_driver"}
INVARIANTS DevicesReady OnlyOwnReleased NothingLeft
